---- MODULE Spec2Model ----
(***************************************************************************)
(* A model of find-pwned-password: the streaming SHA-1 digest engine       *)
(* (sha1.c), the binary search over a sorted corpus of fixed-width records *)
(* (find_hash of find-pwned.c, 24-byte binary records, and of              *)
(* find-pwned-password-hash.c, 63-byte text records) and the two programs' *)
(* main / handle_input around them.                                        *)
(*                                                                         *)
(* Representation.  TLC's integers are 32-bit signed, so a uint32_t is the *)
(* pair <<high 16 bits, low 16 bits>>; a byte (uint8_t) and a char are     *)
(* integers 0..255 (a char is its ASCII code); a C string is the sequence  *)
(* of its chars without the terminating NUL; a byte buffer is a sequence   *)
(* (or a function on 1..n) of bytes and C's index k is index k + 1 here.   *)
(* NULL is the record [null |-> TRUE], which equals no object.              *)
(* The byte view of a uint32_t is little-endian, as on the x86    *)
(* builds the programs are written for (sha1.c:182).                       *)
(***************************************************************************)
EXTENDS Integers, Sequences, FiniteSets, TLC

VARIABLES
    sha1,       \* the sha1_t object of the digest stream (sha1.h:29-35)
    pat,        \* which input stream the digest stream reads
    pos,        \* how many bytes of the stream have been passed to sha1_update
    ended,      \* how many times sha1_end has been applied to sha1
    late,       \* how many sha1_update calls were made after the first sha1_end
    call,       \* the last call made on the digest interface, and its outcome
    vpc,        \* position of the one-shot digest run (sha1_buffer_flags)
    vec,        \* the test vector the one-shot run digests
    frame,      \* locals of the sha1_update call in progress: b, size
    text,       \* the text sha1_text rendered
    fmt,        \* the lookup's corpus format: "bin" (find-pwned.c) or "text"
    recs,       \* the records the corpus file was written from, in file order
    file_data,  \* the bytes of the mapped corpus file
    query,      \* the 40-character hex text of the hash looked up
    target,     \* the hash argument of find_hash (20 bytes, or the text)
    fpc,        \* position of the find_hash call: "call", "loop", "done"
    srch,       \* locals of find_hash: lo, hi, mid; iters counts iterations
    ret,        \* find_hash's return value (found) and *count
    thr,        \* the find_hash calls of concurrent threads, one frame each
    g,          \* the option globals of the program (g_quiet, g_password, ...)
    argv,       \* argv[1..argc-1]
    stdin,      \* the characters of stdin not read yet
    env,        \* what the run was started in: corpus file, terminal, queries
    mpc,        \* position of main: "parse", "open", "args", "stdin", "exit", "signal"
    run,        \* locals of main, the terminal's echo flag, the descriptor, the mapping
    exit_code,  \* the exit code of the process; -1 while it runs
    log,        \* one entry for each call of handle_input
    p2b         \* pwned2bin: its stdin not read yet and the bytes it wrote

shaVars == <<sha1, pat, pos, ended, late, call>>
vecVars == <<vpc, vec, frame, text>>
findVars == <<fmt, recs, file_data, query, target, fpc, srch, ret, thr>>
mainVars == <<g, argv, stdin, env, mpc, run, exit_code, log, p2b>>
vars == <<sha1, pat, pos, ended, late, call, vpc, vec, frame, text,
          fmt, recs, file_data, query, target, fpc, srch, ret, thr,
          g, argv, stdin, env, mpc, run, exit_code, log, p2b>>

\* the null pointer to an object, and the null pointer to a byte buffer (no
\* buffer holds the byte -1)
NULL == [null |-> TRUE]
NULLBUF == <<-1>>

(***************************************************************************)
(* Bounds of the model.                                                    *)
(***************************************************************************)
\* the longest prefix of an input stream the digest stream is fed
MaxBytes == 130
\* how many sha1_update calls are tried on a state that was already ended
MaxLate == 1
\* the most records a corpus of the lookup holds
MaxRecords == 4
\* the most queries a run of a program is given
MaxQueries == 2
\* the most sha1_update calls without effect and sha1_text calls on one object
MaxCalls == 2
\* how many threads call find_hash on one corpus at the same time
MaxThreads == 2

\* the longest argument list given to ParseOptions
MaxArgs == 3

(***************************************************************************)
(* 32-bit arithmetic of sha1.c on <<high, low>> pairs.                     *)
(***************************************************************************)
RECURSIVE BitXor(_, _, _)
BitXor(a, b, n) ==
    IF n = 0 THEN 0 ELSE ((a + b) % 2) + 2 * BitXor(a \div 2, b \div 2, n - 1)

RECURSIVE BitAnd(_, _, _)
BitAnd(a, b, n) ==
    IF n = 0 THEN 0 ELSE ((a % 2) * (b % 2)) + 2 * BitAnd(a \div 2, b \div 2, n - 1)

\* C's ^, & and | on bytes, tabulated once
XorTable == [a \in 0..255 |-> [b \in 0..255 |-> BitXor(a, b, 8)]]
AndTable == [a \in 0..255 |-> [b \in 0..255 |-> BitAnd(a, b, 8)]]
OrTable  == [a \in 0..255 |-> [b \in 0..255 |-> a + b - BitAnd(a, b, 8)]]

Xor16(a, b) == XorTable[a \div 256][b \div 256] * 256 + XorTable[a % 256][b % 256]
And16(a, b) == AndTable[a \div 256][b \div 256] * 256 + AndTable[a % 256][b % 256]
Or16(a, b)  == OrTable[a \div 256][b \div 256] * 256 + OrTable[a % 256][b % 256]

\* x ^ y, x & y, x | y, ~x and x + y on uint32_t
XOR(p, q) == <<Xor16(p[1], q[1]), Xor16(p[2], q[2])>>
AND(p, q) == <<And16(p[1], q[1]), And16(p[2], q[2])>>
OR(p, q)  == <<Or16(p[1], q[1]), Or16(p[2], q[2])>>
NOT(p)    == <<65535 - p[1], 65535 - p[2]>>
ADD(p, q) ==
    LET lo == p[2] + q[2]
    IN  <<(p[1] + q[1] + (lo \div 65536)) % 65536, lo % 65536>>

\* the uint32_t with the four bytes b3 (most significant) .. b0
WordOfBytes(b3, b2, b1, b0) == <<b3 * 256 + b2, b1 * 256 + b0>>

\* #define ROTATE_LEFT(_x,_c) ((_x << _c) | (_x >> (0x20 - _c))), for the
\* three shift counts sha1_hash_block uses
ROTATE_LEFT(p, c) ==
    CASE c = 1  -> <<((p[1] * 2) % 65536) + (p[2] \div 32768),
                     ((p[2] * 2) % 65536) + (p[1] \div 32768)>>
      [] c = 5  -> <<((p[1] * 32) % 65536) + (p[2] \div 2048),
                     ((p[2] * 32) % 65536) + (p[1] \div 2048)>>
      [] c = 30 -> <<((p[2] * 16384) % 65536) + (p[1] \div 4),
                     ((p[1] * 16384) % 65536) + (p[2] \div 4)>>

(***************************************************************************)
(* sha1.h / sha1.c                                                         *)
(***************************************************************************)
SHA1_BINARY_BYTES == 20
SHA1_BLOCK_BYTES == 64
SHA1_FLAG_UPPER_CASE == 1
SHA1_FLAGS_DEFAULT == 0

\* const sha1_t sha1_initialized = SHA1_INIT();
sha1_initialized ==
    [h      |-> << <<26437, 8961>>,      \* 0x67452301
                   <<61389, 43913>>,     \* 0xEFCDAB89
                   <<39098, 56574>>,     \* 0x98BADCFE
                   <<4146, 21622>>,      \* 0x10325476
                   <<50130, 57840>> >>,  \* 0xC3D2E1F0
     block  |-> [i \in 1..SHA1_BLOCK_BYTES |-> 0],
     bytes  |-> 0,
     blocks |-> 0,
     flags  |-> SHA1_FLAGS_DEFAULT]

\* sha1_init_flags with the flags mixed into the first accumulator word
sha1_init_flags_seeded(obj, flags) ==
    IF obj # NULL
    THEN [sha1_initialized EXCEPT
             !.flags = flags,
             !.h[1] = <<sha1_initialized.h[1][1], sha1_initialized.h[1][2] + flags>>]
    ELSE obj

sha1_init_flags(obj, flags) ==
    IF obj # NULL THEN [sha1_initialized EXCEPT !.flags = flags] ELSE obj

\* the round constants k of sha1_hash_block
K_00_19 == <<23170, 31129>>     \* 0x5A827999
K_20_39 == <<28377, 60321>>     \* 0x6ED9EBA1
K_40_59 == <<36635, 48348>>     \* 0x8F1BBCDC
K_60_79 == <<51810, 49622>>     \* 0xCA62C1D6

\* for (i = 0; i < 0x10; ++i) w[i] = big-endian word i of block_data
ScheduleHead(block_data) ==
    [i \in 1..16 |-> WordOfBytes(block_data[4 * i - 3], block_data[4 * i - 2],
                                 block_data[4 * i - 1], block_data[4 * i])]

\* one iteration of for (i = 0x10; i < 0x50; ++i): w[i] appended to w[0..i-1]
ScheduleStep(w) ==
    LET i == Len(w) + 1
        k == XOR(XOR(XOR(w[i - 3], w[i - 8]), w[i - 14]), w[i - 16])
    IN  Append(w, ROTATE_LEFT(k, 1))

\* n iterations of that loop, in order (split in halves to keep the
\* evaluation shallow; left is evaluated before the second half starts)
RECURSIVE ScheduleSteps(_, _)
ScheduleSteps(w, n) ==
    IF n = 0 THEN w
    ELSE IF n = 1 THEN ScheduleStep(w)
    ELSE LET half == n \div 2
             left == ScheduleSteps(w, half)
         IN  IF left = <<>> THEN left ELSE ScheduleSteps(left, n - half)

\* one iteration i of for (i = 0; i < 0x50; i++) on s = <<a, b, c, d, e>>
Round(s, w, i) ==
    LET a == s[1]
        b == s[2]
        c == s[3]
        d == s[4]
        e == s[5]
        f == IF i < 20 THEN OR(AND(b, c), AND(NOT(b), d))
             ELSE IF i < 40 THEN XOR(XOR(b, c), d)
             ELSE IF i < 60 THEN OR(OR(AND(b, c), AND(b, d)), AND(c, d))
             ELSE XOR(XOR(b, c), d)
        k == IF i < 20 THEN K_00_19
             ELSE IF i < 40 THEN K_20_39
             ELSE IF i < 60 THEN K_40_59
             ELSE K_60_79
        temp == ADD(ADD(ADD(ADD(ROTATE_LEFT(a, 5), f), e), k), w[i + 1])
    IN  <<temp, a, ROTATE_LEFT(b, 30), c, d>>

\* iterations lo .. hi - 1 of that loop, in order
RECURSIVE Rounds(_, _, _, _)
Rounds(s, w, lo, hi) ==
    IF hi - lo = 1 THEN Round(s, w, lo)
    ELSE LET mid == (lo + hi) \div 2
             left == Rounds(s, w, lo, mid)
         IN  IF left = <<>> THEN left ELSE Rounds(left, w, mid, hi)

\* static void sha1_hash_block(uint32_t* h, const uint8_t* block_data):
\* the value of h[0..4] on return
sha1_hash_block(h, block_data) ==
    LET w == ScheduleSteps(ScheduleHead(block_data), 64)
        r == Rounds(h, w, 0, 80)
    IN  <<ADD(h[1], r[1]), ADD(h[2], r[2]), ADD(h[3], r[3]),
          ADD(h[4], r[4]), ADD(h[5], r[5])>>

\* memcpy(&block[at], &data[b], n): the block afterwards
memcpy(block, at, data, b, n) ==
    [i \in 1..SHA1_BLOCK_BYTES |->
        IF at < i /\ i <= at + n THEN data[b + i - at] ELSE block[i]]

\* memset(&block[at], 0, n): the block afterwards
memset0(block, at, n) ==
    [i \in 1..SHA1_BLOCK_BYTES |-> IF at < i /\ i <= at + n THEN 0 ELSE block[i]]

\* sha1_update_enter with the early return giving NULL instead of sha1
sha1_update_enter_null(obj, data, size) ==
    IF obj = NULL \/ data = NULLBUF \/ size = 0
    THEN [sha1 |-> NULL, b |-> 0, size |-> size, returned |-> TRUE]
    ELSE LET bytes_used_in_block == obj.bytes % SHA1_BLOCK_BYTES
             bytes_free_in_block == SHA1_BLOCK_BYTES - bytes_used_in_block
         IN  IF size < bytes_free_in_block
             THEN [sha1 |-> [obj EXCEPT
                        !.block = memcpy(obj.block, bytes_used_in_block, data, 0, size),
                        !.bytes = obj.bytes + size],
                   b |-> 0, size |-> size, returned |-> TRUE]
             ELSE LET filled == memcpy(obj.block, bytes_used_in_block, data, 0,
                                       bytes_free_in_block)
                  IN  [sha1 |-> [obj EXCEPT
                             !.block = filled,
                             !.bytes = obj.bytes + bytes_free_in_block,
                             !.h = sha1_hash_block(obj.h, filled),
                             !.blocks = obj.blocks + 1],
                       b |-> bytes_free_in_block,
                       size |-> size - bytes_free_in_block,
                       returned |-> FALSE]

\* sha1_update_enter with the short fragment copied to the start of the
\* block instead of after the bytes already staged
sha1_update_enter_at0(obj, data, size) ==
    IF obj = NULL \/ data = NULLBUF \/ size = 0
    THEN [sha1 |-> obj, b |-> 0, size |-> size, returned |-> TRUE]
    ELSE LET bytes_used_in_block == obj.bytes % SHA1_BLOCK_BYTES
             bytes_free_in_block == SHA1_BLOCK_BYTES - bytes_used_in_block
         IN  IF size < bytes_free_in_block
             THEN [sha1 |-> [obj EXCEPT
                        !.block = memcpy(obj.block, 0, data, 0, size),
                        !.bytes = obj.bytes + size],
                   b |-> 0, size |-> size, returned |-> TRUE]
             ELSE LET filled == memcpy(obj.block, bytes_used_in_block, data, 0,
                                       bytes_free_in_block)
                  IN  [sha1 |-> [obj EXCEPT
                             !.block = filled,
                             !.bytes = obj.bytes + bytes_free_in_block,
                             !.h = sha1_hash_block(obj.h, filled),
                             !.blocks = obj.blocks + 1],
                       b |-> bytes_free_in_block,
                       size |-> size - bytes_free_in_block,
                       returned |-> FALSE]

\* sha1_update up to its while loop (sha1.c:94-123).  The result is the
\* call's state: the object, b (as an offset into data), size, and whether
\* the call has returned.
sha1_update_enter(obj, data, size) ==
    IF obj = NULL \/ data = NULLBUF \/ size = 0
    THEN [sha1 |-> obj, b |-> 0, size |-> size, returned |-> TRUE]
    ELSE LET bytes_used_in_block == obj.bytes % SHA1_BLOCK_BYTES
             bytes_free_in_block == SHA1_BLOCK_BYTES - bytes_used_in_block
         IN  IF size < bytes_free_in_block
             THEN [sha1 |-> [obj EXCEPT
                        !.block = memcpy(obj.block, bytes_used_in_block, data, 0, size),
                        !.bytes = obj.bytes + size],
                   b |-> 0, size |-> size, returned |-> TRUE]
             ELSE LET filled == memcpy(obj.block, bytes_used_in_block, data, 0,
                                       bytes_free_in_block)
                  IN  [sha1 |-> [obj EXCEPT
                             !.block = filled,
                             !.bytes = obj.bytes + bytes_free_in_block,
                             !.h = sha1_hash_block(obj.h, filled),
                             !.blocks = obj.blocks + 1],
                       b |-> bytes_free_in_block,
                       size |-> size - bytes_free_in_block,
                       returned |-> FALSE]

\* one iteration of while (size >= SHA1_BLOCK_BYTES) (sha1.c:128-135)
sha1_update_block(fr, data) ==
    LET copied == memcpy(fr.sha1.block, 0, data, fr.b, SHA1_BLOCK_BYTES)
    IN  [fr EXCEPT
            !.sha1 = [fr.sha1 EXCEPT
                         !.block = copied,
                         !.bytes = fr.sha1.bytes + SHA1_BLOCK_BYTES,
                         !.h = sha1_hash_block(fr.sha1.h, copied),
                         !.blocks = fr.sha1.blocks + 1],
            !.b = fr.b + SHA1_BLOCK_BYTES,
            !.size = fr.size - SHA1_BLOCK_BYTES]

\* sha1_update_leave that copies from the start of data instead of from b
sha1_update_leave_head(fr, data) ==
    IF fr.size > 0
    THEN [fr.sha1 EXCEPT
             !.block = memcpy(fr.sha1.block, 0, data, 0, fr.size),
             !.bytes = fr.sha1.bytes + fr.size]
    ELSE fr.sha1

\* after the loop: pour the remainder into the block and return (sha1.c:140-145)
sha1_update_leave(fr, data) ==
    IF fr.size > 0
    THEN [fr.sha1 EXCEPT
             !.block = memcpy(fr.sha1.block, 0, data, fr.b, fr.size),
             !.bytes = fr.sha1.bytes + fr.size]
    ELSE fr.sha1

\* the while loop and what follows it, from the call state fr
RECURSIVE sha1_update_run(_, _)
sha1_update_run(fr, data) ==
    IF fr.returned THEN fr.sha1
    ELSE IF fr.size >= SHA1_BLOCK_BYTES
         THEN sha1_update_run(sha1_update_block(fr, data), data)
         ELSE sha1_update_leave(fr, data)

\* sha1_t* sha1_update(sha1_t* sha1, const void* data, size_t size): the
\* object afterwards
sha1_update(obj, data, size) ==
    sha1_update_run(sha1_update_enter(obj, data, size), data)

\* (bits >> s) & 0xFF for a bit count below 2^31
BitsByte(bits, s) == IF s >= 31 THEN 0 ELSE (bits \div (2 ^ s)) % 256

\* sha1_end_blocks that leaves the start of the second block as it was
sha1_end_blocks_stale(obj) ==
    LET used0 == obj.bytes % SHA1_BLOCK_BYTES
        marked == [obj.block EXCEPT ![used0 + 1] = 128]
        used1 == used0 + 1
        spill == used1 > SHA1_BLOCK_BYTES - 8
        zeroed == memset0(marked, used1, SHA1_BLOCK_BYTES - used1)
        block1 == IF spill THEN zeroed ELSE marked
        used2 == IF spill THEN used0 ELSE used1
        padded == memset0(block1, used2, (SHA1_BLOCK_BYTES - 8) - used2)
        bits == 8 * obj.bytes
        final == [i \in 1..SHA1_BLOCK_BYTES |->
                     IF i > SHA1_BLOCK_BYTES - 8
                     THEN BitsByte(bits, 8 * (SHA1_BLOCK_BYTES - i))
                     ELSE padded[i]]
    IN  IF spill THEN <<zeroed, final>> ELSE <<final>>

\* the blocks sha1_end passes to sha1_hash_block, in order: the block
\* zeroed to its end when the bit count does not fit (sha1.c:172-177),
\* and the block that ends with the bit count (sha1.c:184-199)
sha1_end_blocks(obj) ==
    LET used0 == obj.bytes % SHA1_BLOCK_BYTES
        \* sha1->block[bytes_used_in_block++] = 0x80;
        marked == [obj.block EXCEPT ![used0 + 1] = 128]
        used1 == used0 + 1
        spill == used1 > SHA1_BLOCK_BYTES - 8
        \* if (bytes_used_in_block > (SHA1_BLOCK_BYTES - 8)) { ... }
        zeroed == memset0(marked, used1, SHA1_BLOCK_BYTES - used1)
        block1 == IF spill THEN zeroed ELSE marked
        used2 == IF spill THEN 0 ELSE used1
        \* memset(&sha1->block[used], 0, (SHA1_BLOCK_BYTES - 8) - used);
        padded == memset0(block1, used2, (SHA1_BLOCK_BYTES - 8) - used2)
        bits == 8 * obj.bytes
        final == [i \in 1..SHA1_BLOCK_BYTES |->
                     IF i > SHA1_BLOCK_BYTES - 8
                     THEN BitsByte(bits, 8 * (SHA1_BLOCK_BYTES - i))
                     ELSE padded[i]]
    IN  IF spill THEN <<zeroed, final>> ELSE <<final>>

\* sha1_t* sha1_end(sha1_t* sha1): the object afterwards
sha1_end(obj) ==
    IF obj = NULL THEN obj
    ELSE LET hashed == sha1_end_blocks(obj)
         IN  [obj EXCEPT
                 !.block = hashed[Len(hashed)],
                 !.h = IF Len(hashed) = 2
                       THEN sha1_hash_block(sha1_hash_block(obj.h, hashed[1]), hashed[2])
                       ELSE sha1_hash_block(obj.h, hashed[1]),
                 !.blocks = obj.blocks + Len(hashed)]

\* byte j (0..19) of the memory image of h[0..4], little-endian words
HashByte(h, j) ==
    LET word == h[(j \div 4) + 1]
    IN  CASE j % 4 = 0 -> word[2] % 256
          [] j % 4 = 1 -> word[2] \div 256
          [] j % 4 = 2 -> word[1] % 256
          [] j % 4 = 3 -> word[1] \div 256

\* the index used without the byte swap
Xor3_none(i) == i

\* i ^ 3 for 0 <= i
Xor3(i) == 4 * (i \div 4) + (3 - (i % 4))

\* "0123456789ABCDEF" and "0123456789abcdef"
HexUpper == <<48, 49, 50, 51, 52, 53, 54, 55, 56, 57, 65, 66, 67, 68, 69, 70>>
HexLower == <<48, 49, 50, 51, 52, 53, 54, 55, 56, 57, 97, 98, 99, 100, 101, 102>>

\* char* sha1_text(const sha1_t* sha1, char* text): the string written
sha1_text(obj) ==
    LET tohex == IF (obj.flags % 2) = SHA1_FLAG_UPPER_CASE THEN HexUpper ELSE HexLower
    IN  [n \in 1..(2 * SHA1_BINARY_BYTES) |->
            LET i == (n - 1) \div 2
                byte == HashByte(obj.h, Xor3(i))
            IN  IF n % 2 = 1 THEN tohex[(byte \div 16) + 1] ELSE tohex[(byte % 16) + 1]]

\* sha1_text putting the words of h in big-endian byte order in place
\* before it reads them
sha1_text_leaves_swapped(obj) ==
    [obj EXCEPT !.h = [w \in 1..5 |->
        <<(obj.h[w][2] % 256) * 256 + (obj.h[w][2] \div 256),
          (obj.h[w][1] % 256) * 256 + (obj.h[w][1] \div 256)>>]]

\* char* sha1_text(const sha1_t* sha1, char* text): the object afterwards;
\* the function reads *sha1 through a pointer to const and writes text only
sha1_text_leaves(obj) == obj

\* char* sha1_buffer_flags(data, size, text, flags): the string written
sha1_buffer_flags(data, size, flags) ==
    sha1_text(sha1_end(sha1_update(sha1_init_flags(sha1_initialized, flags), data, size)))

\* the lookup, when a specification does not run it
idleFind == /\ fmt = "none"
            /\ recs = <<>>
            /\ file_data = <<>>
            /\ query = <<>>
            /\ target = <<>>
            /\ fpc = "off"
            /\ srch = [lo |-> 0, hi |-> 0, mid |-> 0, iters |-> 0]
            /\ ret = [found |-> 0, count |-> 0]
            /\ thr = <<>>

\* the programs, when a specification does not run them
idleMain == /\ g = <<>>
            /\ argv = <<>>
            /\ stdin = <<>>
            /\ env = <<>>
            /\ mpc = "off"
            /\ run = <<>>
            /\ exit_code = -1
            /\ log = <<>>
            /\ p2b = <<>>

(***************************************************************************)
(* The digest stream: one sha1_t fed a prefix of an input stream in        *)
(* fragments, then ended.  The code accepts further calls on an ended      *)
(* object, so the model makes them too.                                    *)
(***************************************************************************)
Patterns == {1, 2}
FragSizes == {0, 1, 55, 56, 63, 64, 65, 128}

\* byte i (1-based) of input stream p
StreamByte(p, i) == IF p = 1 THEN 97 ELSE (i * 37 + 11) % 256

\* the n bytes of stream p that follow its first from bytes
Fragment(p, from, n) == [i \in 1..n |-> StreamByte(p, from + i)]

idleVec == /\ vpc = "off"
           /\ vec = "none"
           /\ frame = [b |-> 0, size |-> 0]
           /\ text = <<>>

InitSha ==
    /\ \E f \in {SHA1_FLAGS_DEFAULT, SHA1_FLAG_UPPER_CASE} :
           sha1 = sha1_init_flags(sha1_initialized, f)
    /\ pat \in Patterns
    /\ pos = 0
    /\ ended = 0
    /\ late = 0
    /\ call = [op |-> "none"]
    /\ idleVec
    /\ idleFind
    /\ idleMain

\* sha1_update(&sha1, fragment, n) with the next n bytes of the stream
Update ==
    \E n \in FragSizes :
        /\ pos + n <= MaxBytes
        /\ ended <= 1
        /\ ended = 1 => late < MaxLate
        /\ \E obj \in {sha1_update(sha1, Fragment(pat, pos, n), n)} : sha1' = obj
        /\ pos' = pos + n
        /\ late' = IF ended = 1 THEN late + 1 ELSE late
        /\ UNCHANGED <<pat, ended, call>>
        /\ UNCHANGED <<vecVars, findVars, mainVars>>

\* sha1_end(&sha1)
End ==
    /\ ended <= 1
    /\ late = 0
    /\ sha1' = sha1_end(sha1)
    /\ ended' = ended + 1
    /\ UNCHANGED <<pat, pos, late, call>>
    /\ UNCHANGED <<vecVars, findVars, mainVars>>

NextSha == Update \/ End

SpecSha == InitSha /\ [][NextSha]_vars

\* the state one sha1_update call with the whole prefix fed so far leaves
OneShot ==
    sha1_update(sha1_init_flags(sha1_initialized, sha1.flags), Fragment(pat, 0, pos), pos)

\* block[0 .. bytes mod 64)
Staged(obj) == [i \in 1..(obj.bytes % SHA1_BLOCK_BYTES) |-> obj.block[i]]

\* C1: however the prefix fed so far was cut into sha1_update calls, the
\* object holds the accumulator, the staged bytes and the byte counter that
\* one sha1_update with the whole prefix leaves, and sha1_end then gives the
\* same digest.
C1_Streaming ==
    /\ ended = 0 =>
           /\ sha1.h = OneShot.h
           /\ sha1.bytes = OneShot.bytes
           /\ Staged(sha1) = Staged(OneShot)
    /\ (ended = 1 /\ late = 0) => sha1.h = sha1_end(OneShot).h

\* a prefix longer than any single fragment, so fed in several calls, that
\* spans two hashed blocks and a staged remainder, then ended
C1_Witness ==
    /\ ended = 1
    /\ late = 0
    /\ \A n \in FragSizes : pos > n
    /\ pos % SHA1_BLOCK_BYTES # 0
    /\ sha1.bytes = pos
    /\ sha1.blocks = 3

\* C6: once sha1_end has been applied, no later call changes the
\* accumulator.
C6_FinishIsTerminal == [][ended >= 1 => sha1'.h = sha1.h]_vars

(***************************************************************************)
(* The one-shot digest of the published vectors: sha1_buffer, with the     *)
(* while loop of sha1_update taken one iteration per step.                 *)
(***************************************************************************)
Vectors == {"empty", "abc", "million_a"}

\* byte i (1-based) of vector v: "", "abc", 'a' repeated
VecByte(v, i) ==
    CASE v = "empty" -> 0
      [] v = "abc" -> <<97, 98, 99>>[i]
      [] v = "million_a" -> 97

\* bytes from + 1 .. from + n of vector v's buffer, at their own indices
VecData(v, from, n) == [i \in (from + 1)..(from + n) |-> VecByte(v, i)]

Min(a, b) == IF a <= b THEN a ELSE b

VecSize(v) ==
    CASE v = "empty" -> 0
      [] v = "abc" -> 3
      [] v = "million_a" -> 1000 * 1000

VecText(v) ==
    CASE v = "empty" ->
    \* da39a3ee5e6b4b0d3255bfef95601890afd80709
    <<100, 97, 51, 57, 97, 51, 101, 101, 53, 101, 54, 98, 52, 98, 48, 100, 51, 50, 53, 53,
      98, 102, 101, 102, 57, 53, 54, 48, 49, 56, 57, 48, 97, 102, 100, 56, 48, 55, 48, 57>>
      [] v = "abc" ->
    \* a9993e364706816aba3e25717850c26c9cd0d89d
    <<97, 57, 57, 57, 51, 101, 51, 54, 52, 55, 48, 54, 56, 49, 54, 97, 98, 97, 51, 101,
      50, 53, 55, 49, 55, 56, 53, 48, 99, 50, 54, 99, 57, 99, 100, 48, 100, 56, 57, 100>>
      [] v = "million_a" ->
    \* 34aa973cd4c4daa4f61eeb2bdbad27316534016f
    <<51, 52, 97, 97, 57, 55, 51, 99, 100, 52, 99, 52, 100, 97, 97, 52, 102, 54, 49, 101,
      101, 98, 50, 98, 100, 98, 97, 100, 50, 55, 51, 49, 54, 53, 51, 52, 48, 49, 54, 102>>

idleSha == /\ pat = 1
           /\ pos = 0
           /\ ended = 0
           /\ late = 0
           /\ call = [op |-> "none"]

InitVec ==
    /\ vec \in Vectors
    /\ vpc = "call"
    /\ sha1 = sha1_initialized
    /\ frame = [b |-> 0, size |-> 0]
    /\ text = <<>>
    /\ idleSha
    /\ idleFind
    /\ idleMain

\* sha1_init_flags and sha1_update up to its while loop
VecEnter ==
    /\ vpc = "call"
    /\ \E fr \in {sha1_update_enter(sha1_init_flags(sha1, SHA1_FLAGS_DEFAULT),
                                     VecData(vec, 0, Min(VecSize(vec), SHA1_BLOCK_BYTES)),
                                     VecSize(vec))} :
           /\ sha1' = fr.sha1
           /\ frame' = [b |-> fr.b, size |-> fr.size]
           /\ vpc' = IF fr.returned THEN "end" ELSE "loop"
    /\ UNCHANGED <<vec, text>>
    /\ UNCHANGED <<pat, pos, ended, late, call>>
    /\ UNCHANGED <<findVars, mainVars>>

\* one iteration of the while loop of sha1_update
VecBlock ==
    /\ vpc = "loop"
    /\ frame.size >= SHA1_BLOCK_BYTES
    /\ \E fr \in {sha1_update_block([sha1 |-> sha1, b |-> frame.b, size |-> frame.size,
                                      returned |-> FALSE],
                                     VecData(vec, frame.b, SHA1_BLOCK_BYTES))} :
           /\ sha1' = fr.sha1
           /\ frame' = [b |-> fr.b, size |-> fr.size]
    /\ UNCHANGED <<vpc, vec, text>>
    /\ UNCHANGED <<pat, pos, ended, late, call>>
    /\ UNCHANGED <<findVars, mainVars>>

\* the loop ends: the remainder is staged and sha1_update returns
VecLeave ==
    /\ vpc = "loop"
    /\ frame.size < SHA1_BLOCK_BYTES
    /\ sha1' = sha1_update_leave([sha1 |-> sha1, b |-> frame.b, size |-> frame.size,
                                  returned |-> FALSE],
                                 VecData(vec, frame.b, frame.size))
    /\ vpc' = "end"
    /\ UNCHANGED <<vec, frame, text>>
    /\ UNCHANGED <<pat, pos, ended, late, call>>
    /\ UNCHANGED <<findVars, mainVars>>

\* sha1_end, then sha1_text
VecEnd ==
    /\ vpc = "end"
    /\ \E obj \in {sha1_end(sha1)} :
           /\ sha1' = obj
           /\ text' = sha1_text(obj)
    /\ vpc' = "done"
    /\ UNCHANGED <<vec, frame>>
    /\ UNCHANGED <<pat, pos, ended, late, call>>
    /\ UNCHANGED <<findVars, mainVars>>

NextVec == VecEnter \/ VecBlock \/ VecLeave \/ VecEnd

SpecVec == InitVec /\ [][NextVec]_vars

\* C4: the digest text of each published vector is the published one.
C4_KnownVectors == vpc = "done" => text = VecText(vec)

\* the run over 1,000,000 bytes of 'a' has finished, having hashed 15625
\* blocks in the loop and one more for the padding
C4_Witness == vpc = "done" /\ vec = "million_a" /\ sha1.blocks = 15626

(***************************************************************************)
(* The lookup: find_hash of the binary-corpus program (find-pwned.c) and   *)
(* of the text-corpus program (find-pwned-password-hash.c).  The mapped    *)
(* file is the sequence of its bytes; text is the sequence of its          *)
(* character codes.                                                        *)
(***************************************************************************)

\* const uint64_t kPwnedInfoSize = sizeof(pwned_info_t): 20 hash bytes and
\* a uint32_t count, packed
kPwnedInfoSize == SHA1_BINARY_BYTES + 4

kTextHashChars == 2 * SHA1_BINARY_BYTES

kTextHashLineBytes == 63

\* C's integer division, which truncates towards zero
CDiv(a, b) == IF a >= 0 THEN a \div b ELSE -((-a) \div b)

\* memcmp that looks at the first byte only
memcmp_first(s1, s2, at, n) ==
    IF s1[1] = s2[at + 1] THEN 0 ELSE IF s1[1] < s2[at + 1] THEN -1 ELSE 1

\* the sign of memcmp(s1, &s2[at], n): bytes compare as unsigned char
memcmp(s1, s2, at, n) ==
    LET d == {i \in 1..n : s1[i] # s2[at + i]}
    IN  IF d = {} THEN 0
        ELSE LET i == CHOOSE i \in d : \A j \in d : i <= j
             IN  IF s1[i] < s2[at + i] THEN -1 ELSE 1

\* pwned->count of record mid read most significant byte first
pwned_count_be(data_, mid) ==
    LET at == mid * kPwnedInfoSize + SHA1_BINARY_BYTES
    IN  data_[at + 4] + 256 * data_[at + 3] + 65536 * data_[at + 2]
            + 16777216 * data_[at + 1]

\* pwned->count of record mid: a uint32_t read on a little-endian machine
pwned_count(data_, mid) ==
    LET at == mid * kPwnedInfoSize + SHA1_BINARY_BYTES
    IN  data_[at + 1] + 256 * data_[at + 2] + 65536 * data_[at + 3]
            + 16777216 * data_[at + 4]

\* one iteration of the while (1) loop of find_hash (find-pwned.c) with
\* the break taken when hi == mid instead of lo == mid
find_hash_bin_iter_hibreak(data_, hash, s, c) ==
    LET cmp == memcmp(hash, data_, s.mid * kPwnedInfoSize, SHA1_BINARY_BYTES)
        lo2 == IF cmp < 0 THEN s.lo ELSE s.mid
        hi2 == IF cmp < 0 THEN s.mid ELSE s.hi
    IN  IF cmp = 0
        THEN [pc |-> "done", lo |-> s.lo, hi |-> s.hi, mid |-> s.mid,
              found |-> 1, count |-> pwned_count(data_, s.mid)]
        ELSE IF s.hi = s.mid
        THEN [pc |-> "done", lo |-> s.lo, hi |-> s.hi, mid |-> s.mid,
              found |-> 0, count |-> 0]
        ELSE [pc |-> "loop", lo |-> lo2, hi |-> hi2,
              mid |-> CDiv(lo2 + hi2, 2), found |-> c.found, count |-> c.count]

\* one iteration of the while (1) loop of find_hash (find-pwned.c) that
\* never takes the break
find_hash_bin_iter_nobreak(data_, hash, s, c) ==
    LET cmp == memcmp(hash, data_, s.mid * kPwnedInfoSize, SHA1_BINARY_BYTES)
        lo2 == IF cmp < 0 THEN s.lo ELSE s.mid
        hi2 == IF cmp < 0 THEN s.mid ELSE s.hi
    IN  IF cmp = 0
        THEN [pc |-> "done", lo |-> s.lo, hi |-> s.hi, mid |-> s.mid,
              found |-> 1, count |-> pwned_count(data_, s.mid)]
        ELSE [pc |-> "loop", lo |-> lo2, hi |-> hi2,
              mid |-> CDiv(lo2 + hi2, 2), found |-> c.found, count |-> c.count]

\* one iteration of the while (1) loop of find_hash (find-pwned.c), with
\* the two statements after the loop when the iteration breaks; s holds
\* lo, hi, mid and c the caller's found and count
find_hash_bin_iter(data_, hash, s, c) ==
    LET cmp == memcmp(hash, data_, s.mid * kPwnedInfoSize, SHA1_BINARY_BYTES)
        lo2 == IF cmp < 0 THEN s.lo ELSE s.mid
        hi2 == IF cmp < 0 THEN s.mid ELSE s.hi
    IN  IF cmp = 0
        THEN [pc |-> "done", lo |-> s.lo, hi |-> s.hi, mid |-> s.mid,
              found |-> 1, count |-> pwned_count(data_, s.mid)]
        ELSE IF s.lo = s.mid
        THEN [pc |-> "done", lo |-> s.lo, hi |-> s.hi, mid |-> s.mid,
              found |-> 0, count |-> 0]
        ELSE [pc |-> "loop", lo |-> lo2, hi |-> hi2,
              mid |-> CDiv(lo2 + hi2, 2), found |-> c.found, count |-> c.count]

\* the declarations of find_hash with hi one past the last record
find_hash_bin_enter_past(file_size, c) ==
    LET hi == CDiv(file_size, kPwnedInfoSize)
    IN  [pc |-> "loop", lo |-> 0, hi |-> hi, mid |-> CDiv(0 + hi, 2),
         found |-> c.found, count |-> c.count]

\* the declarations of find_hash (find-pwned.c): lo, hi, mid
find_hash_bin_enter(file_size, c) ==
    LET hi == CDiv(file_size, kPwnedInfoSize) - 1
    IN  [pc |-> "loop", lo |-> 0, hi |-> hi, mid |-> CDiv(0 + hi, 2),
         found |-> c.found, count |-> c.count]

\* tolower in the C locale
tolower(c) == IF 65 <= c /\ c <= 90 THEN c + 32 ELSE c

\* the sign of strncasecmp(s1, &s2[at], n); s1 ends at its NUL, which is
\* the position after its last character
strncasecmp(s1, s2, at, n) ==
    LET c1(i) == IF i <= Len(s1) THEN tolower(s1[i]) ELSE 0
        c2(i) == IF at + i <= Len(s2) THEN tolower(s2[at + i]) ELSE 0
        stop == {i \in 1..n : c1(i) # c2(i) \/ c1(i) = 0}
    IN  IF stop = {} THEN 0
        ELSE LET i == CHOOSE i \in stop : \A j \in stop : i <= j
             IN  IF c1(i) = c2(i) THEN 0
                 ELSE IF c1(i) < c2(i) THEN -1 ELSE 1

\* isspace in the C locale
isspace(c) == c = 32 \/ (9 <= c /\ c <= 13)

isdigit(c) == 48 <= c /\ c <= 57

RECURSIVE atoi_skip(_, _)
atoi_skip(s, i) ==
    IF i <= Len(s) /\ isspace(s[i]) THEN atoi_skip(s, i + 1) ELSE i

RECURSIVE atoi_digits(_, _, _)
atoi_digits(s, i, acc) ==
    IF i <= Len(s) /\ isdigit(s[i])
    THEN atoi_digits(s, i + 1, acc * 10 + (s[i] - 48))
    ELSE acc

\* atoi(&s[at]): white space, an optional sign, decimal digits
atoi(s, at) ==
    LET i == atoi_skip(s, at + 1)
        sign == IF i <= Len(s) /\ s[i] \in {43, 45} THEN s[i] ELSE 0
        v == atoi_digits(s, IF sign = 0 THEN i ELSE i + 1, 0)
    IN  IF sign = 45 THEN -v ELSE v

\* one iteration of the while (1) loop of find_hash
\* (find-pwned-password-hash.c), with the two statements after the loop
\* when the iteration breaks
find_hash_text_iter(data_, hash, s, c) ==
    LET file_hash == s.mid * kTextHashLineBytes
        cmp == strncasecmp(hash, data_, file_hash, kTextHashChars)
        lo2 == IF cmp < 0 THEN s.lo ELSE s.mid
        hi2 == IF cmp < 0 THEN s.mid ELSE s.hi
    IN  IF cmp = 0
        THEN [pc |-> "done", lo |-> s.lo, hi |-> s.hi, mid |-> s.mid,
              found |-> 1, count |-> atoi(data_, file_hash + kTextHashChars + 1)]
        ELSE IF s.lo = s.mid
        THEN [pc |-> "done", lo |-> s.lo, hi |-> s.hi, mid |-> s.mid,
              found |-> 0, count |-> 0]
        ELSE [pc |-> "loop", lo |-> lo2, hi |-> hi2,
              mid |-> CDiv(lo2 + hi2, 2), found |-> c.found, count |-> c.count]

\* the declarations of find_hash (find-pwned-password-hash.c) and its test
\* of the hash length, which returns 0 and leaves *count alone
find_hash_text_enter(file_size, hash, c) ==
    LET hi == CDiv(file_size, kTextHashLineBytes) - 1
        mid == CDiv(0 + hi, 2)
    IN  IF Len(hash) # kTextHashChars
        THEN [pc |-> "done", lo |-> 0, hi |-> hi, mid |-> mid,
              found |-> 0, count |-> c.count]
        ELSE [pc |-> "loop", lo |-> 0, hi |-> hi, mid |-> mid,
              found |-> c.found, count |-> c.count]

\* find_hash of either program from its entry to its return: the found
\* it returns and the *count it leaves
RECURSIVE find_hash_loop(_, _, _, _)
find_hash_loop(f, data_, hash, r) ==
    IF r.pc = "done" THEN [found |-> r.found, count |-> r.count]
    ELSE find_hash_loop(f, data_, hash,
             IF f = "bin" THEN find_hash_bin_iter(data_, hash, r, r)
             ELSE find_hash_text_iter(data_, hash, r, r))

find_hash(f, data_, file_size, hash, c) ==
    find_hash_loop(f, data_, hash,
        IF f = "bin" THEN find_hash_bin_enter(file_size, c)
        ELSE find_hash_text_enter(file_size, hash, c))

\* hexval that knows no lower-case digit
hexval_upper(c) ==
    IF 48 <= c /\ c <= 57 THEN c - 48
    ELSE IF 65 <= c /\ c <= 70 THEN 10 + c - 65
    ELSE -1

\* static inline int hexval(char c)
hexval(c) ==
    IF 48 <= c /\ c <= 57 THEN c - 48
    ELSE IF 65 <= c /\ c <= 70 THEN 10 + c - 65
    ELSE IF 97 <= c /\ c <= 102 THEN 10 + c - 97
    ELSE -1

\* static int hex2byte(const char* h, uint8_t* byte) on h = &input[at]:
\* its return value, and *byte afterwards (old when it is not stored)
hex2byte(input, at, old) ==
    LET hi == IF at + 1 <= Len(input) THEN hexval(input[at + 1]) ELSE -1
        lo == IF at + 2 <= Len(input) THEN hexval(input[at + 2]) ELSE -1
    IN  IF hi < 0 \/ lo < 0
        THEN [ok |-> 0, byte |-> old]
        ELSE [ok |-> 1, byte |-> (hi * 16 + lo) % 256]

\* the decoding loop of handle_input (find-pwned.c) over uint8_t hash[20]
\* = {0}: the index of the first byte that does not decode (-1 when all
\* do), and hash afterwards
hex_decode(input) ==
    LET bad == {i \in 0..(SHA1_BINARY_BYTES - 1) : hex2byte(input, 2 * i, 0).ok = 0}
        first == IF bad = {} THEN SHA1_BINARY_BYTES
                 ELSE CHOOSE i \in bad : \A j \in bad : i <= j
    IN  [bad |-> IF bad = {} THEN -1 ELSE first,
         hash |-> [i \in 1..SHA1_BINARY_BYTES |->
                      IF i - 1 < first THEN hex2byte(input, 2 * (i - 1), 0).byte
                      ELSE 0]]

(***************************************************************************)
(* The lookup run on small corpora.  A corpus is a strictly ascending      *)
(* choice of at most MaxRecords hashes out of Universe, written in the     *)
(* binary format (20 hash bytes, little-endian count) or in the text       *)
(* format (40 hex characters, a colon, the decimal count, spaces up to     *)
(* column 61, CR LF).  The query is one of the hashes of Universe as hex   *)
(* text in upper, lower or mixed case, so that it is present or absent,    *)
(* before, between or after the records.                                    *)
(***************************************************************************)

\* the hashes, in ascending order: two that differ in their last byte
\* only, two on either side of 0x80 in their first byte, the digest of
\* "abc", and two made of hex letters
Universe ==
    << [i \in 1..SHA1_BINARY_BYTES |-> IF i = SHA1_BINARY_BYTES THEN 1 ELSE 0],
       [i \in 1..SHA1_BINARY_BYTES |-> IF i = SHA1_BINARY_BYTES THEN 2 ELSE 0],
       [i \in 1..SHA1_BINARY_BYTES |-> IF i = 1 THEN 127 ELSE 255],
       [i \in 1..SHA1_BINARY_BYTES |-> IF i = 1 THEN 128 ELSE 0],
       <<169, 153, 62, 54, 71, 6, 129, 106, 186, 62,
         37, 113, 120, 80, 194, 108, 156, 208, 216, 157>>,
       [i \in 1..SHA1_BINARY_BYTES |-> <<171, 205, 239>>[(i % 3) + 1]],
       [i \in 1..SHA1_BINARY_BYTES |-> 255] >>

\* the count stored with each hash of Universe
CountOf == <<1, 258, 3, 70000, 2147483647, 5, 16777217>>

Cases == {"upper", "lower", "mixed"}

\* the hex digit of nibble v at position p of a text in case k
HexDigit(v, p, k) ==
    IF v < 10 THEN 48 + v
    ELSE IF k = "upper" \/ (k = "mixed" /\ p % 2 = 1) THEN 55 + v
    ELSE 87 + v

\* the 40 hex characters of the 20 bytes h, in case k
HexText(h, k) ==
    [p \in 1..(2 * Len(h)) |->
        HexDigit(IF p % 2 = 1 THEN h[(p + 1) \div 2] \div 16
                 ELSE h[p \div 2] % 16, p, k)]

RECURSIVE Decimal(_)
Decimal(n) == IF n < 10 THEN <<48 + n>> ELSE Decimal(n \div 10) \o <<48 + (n % 10)>>

\* one record of the binary corpus, as pwned2bin writes it on a
\* little-endian machine
BinRecord(u) ==
    Universe[u] \o <<CountOf[u] % 256, (CountOf[u] \div 256) % 256,
                     (CountOf[u] \div 65536) % 256,
                     (CountOf[u] \div 16777216) % 256>>

\* one line of the text corpus; the corpus keeps odd hashes in upper case
\* and even ones in lower case
TextRecord(u) ==
    LET head == HexText(Universe[u], IF u % 2 = 1 THEN "upper" ELSE "lower")
                    \o <<58>> \o Decimal(CountOf[u])
    IN  [i \in 1..kTextHashLineBytes |->
            IF i <= Len(head) THEN head[i]
            ELSE IF i = kTextHashLineBytes - 1 THEN 13
            ELSE IF i = kTextHashLineBytes THEN 10
            ELSE 32]

RECURSIVE FileOf(_, _)
FileOf(f, r) ==
    IF r = <<>> THEN <<>>
    ELSE (IF f = "bin" THEN BinRecord(Head(r)) ELSE TextRecord(Head(r)))
             \o FileOf(f, Tail(r))

RECURSIVE Ascending(_)
Ascending(S) ==
    IF S = {} THEN <<>>
    ELSE LET m == CHOOSE m \in S : \A x \in S : m <= x
         IN  <<m>> \o Ascending(S \ {m})

\* the corpora: every set of 1 to MaxRecords hashes of Universe, and all of it
Corpora ==
    {S \in SUBSET (1..Len(Universe)) :
        \/ 1 <= Cardinality(S) /\ Cardinality(S) <= MaxRecords
        \/ S = 1..Len(Universe)}

\* the queries: each hash of Universe in each case, and for the text
\* find_hash one text that is a character short
Queries(f) ==
    {HexText(Universe[u], k) : u \in 1..Len(Universe), k \in Cases}
        \cup (IF f = "text"
              THEN {SubSeq(HexText(Universe[Len(Universe)], "lower"), 1, kTextHashChars - 1)}
              ELSE {})

InitFind ==
    /\ sha1 = NULL
    /\ idleSha
    /\ idleVec
    /\ fmt \in {"bin", "text"}
    /\ \E S \in Corpora : recs = Ascending(S)
    /\ file_data = FileOf(fmt, recs)
    /\ query \in Queries(fmt)
    /\ target = IF fmt = "bin" THEN hex_decode(query).hash ELSE query
    /\ fpc = "call"
    /\ srch = [lo |-> 0, hi |-> 0, mid |-> 0, iters |-> 0]
    /\ \E c \in {0, 9} : ret = [found |-> 1, count |-> c]
    /\ thr = <<>>
    /\ idleMain

\* the call of find_hash up to its loop
FindCall ==
    /\ fpc = "call"
    /\ \E r \in {IF fmt = "bin" THEN find_hash_bin_enter(Len(file_data), ret)
                 ELSE find_hash_text_enter(Len(file_data), target, ret)} :
           /\ fpc' = r.pc
           /\ srch' = [lo |-> r.lo, hi |-> r.hi, mid |-> r.mid, iters |-> 0]
           /\ ret' = [found |-> r.found, count |-> r.count]
    /\ UNCHANGED <<fmt, recs, file_data, query, target, thr>>
    /\ UNCHANGED <<shaVars, vecVars, mainVars>>

\* one iteration of the loop of find_hash
FindIter ==
    /\ fpc = "loop"
    /\ \E r \in {IF fmt = "bin" THEN find_hash_bin_iter(file_data, target, srch, ret)
                 ELSE find_hash_text_iter(file_data, target, srch, ret)} :
           /\ fpc' = r.pc
           /\ srch' = [lo |-> r.lo, hi |-> r.hi, mid |-> r.mid,
                       iters |-> srch.iters + 1]
           /\ ret' = [found |-> r.found, count |-> r.count]
    /\ UNCHANGED <<fmt, recs, file_data, query, target, thr>>
    /\ UNCHANGED <<shaVars, vecVars, mainVars>>

NextFind == FindCall \/ FindIter

SpecFind == InitFind /\ [][NextFind]_vars

\* the hash of Universe that a well-formed query names
QueryId == CHOOSE u \in 1..Len(Universe) : query \in {HexText(Universe[u], k) : k \in Cases}

WellFormed == Len(query) = kTextHashChars

\* the index in the file of the record the query names; 0 when there is none
IndexOf == IF \E i \in 1..Len(recs) : recs[i] = QueryId
           THEN CHOOSE i \in 1..Len(recs) : recs[i] = QueryId
           ELSE 0

\* C2: when the hash of a record of the corpus has been looked up,
\* find_hash has returned 1 and *count is the count of that record.
C2_Completeness ==
    (fpc = "done" /\ WellFormed /\ IndexOf > 0)
        => ret = [found |-> 1, count |-> CountOf[QueryId]]

\* C3: when a hash that no record of the corpus holds has been looked up,
\* find_hash has returned 0 and *count is 0.
C3_Soundness ==
    (fpc = "done" /\ WellFormed /\ IndexOf = 0)
        => ret = [found |-> 0, count |-> 0]

\* an absent hash that sorts between two records has been looked up in a
\* corpus of three records or more
C3_Witness ==
    /\ fpc = "done" /\ WellFormed /\ IndexOf = 0
    /\ Len(recs) >= 3
    /\ recs[1] < QueryId /\ QueryId < recs[Len(recs)]
    /\ srch.iters >= 2
    /\ ret = [found |-> 0, count |-> 0]

\* C5: every iteration of the loop of find_hash either leaves the loop
\* (return or break) or strictly shrinks hi - lo, which stays at least 0.
C5_Terminates ==
    [][fpc = "loop" =>
          \/ fpc' = "done"
          \/ /\ srch'.hi - srch'.lo < srch.hi - srch.lo
             /\ srch'.hi - srch'.lo >= 0]_vars

\* the lookup in a corpus of one record has left the loop by the break of
\* its first iteration, with lo = hi = mid
C5_Witness ==
    /\ fpc = "done" /\ Len(recs) = 1
    /\ srch.iters = 1 /\ srch.lo = srch.hi /\ srch.hi = srch.mid
    /\ ret.found = 0

\* the hex text q with its letters put in case k
Recase(q, k) ==
    [p \in 1..Len(q) |->
        IF hexval(q[p]) < 10 THEN q[p] ELSE HexDigit(hexval(q[p]), p, k)]

\* the lookup of the hex text q in the corpus, as handle_input makes it
Lookup(q) ==
    find_hash(fmt, file_data, Len(file_data),
              IF fmt = "bin" THEN hex_decode(q).hash ELSE q,
              [found |-> 1, count |-> 0])

\* C9: the result of looking up a 40-character hex query is the result of
\* looking up the same query in upper, in lower and in mixed case.
C9_CaseInsensitive ==
    (fpc = "done" /\ WellFormed)
        => \A k \in Cases : Lookup(Recase(query, k)) = ret

\* a query with letters in both cases has been found with its count
C9_Witness ==
    /\ fpc = "done" /\ WellFormed
    /\ query # Recase(query, "upper") /\ query # Recase(query, "lower")
    /\ ret.found = 1 /\ ret.count = CountOf[QueryId]

(***************************************************************************)
(* The two programs: main, ParseOptions and handle_input of find-pwned.c   *)
(* (fmt = "bin") and of find-pwned-password-hash.c (fmt = "text").  A C    *)
(* string is the sequence of its character codes; the character past its  *)
(* end is its NUL.                                                         *)
(***************************************************************************)

\* s[i] of the C string s
At(s, i) == IF i < Len(s) THEN s[i + 1] ELSE 0

\* &s[i] of the C string s
From(s, i) == SubSeq(s, i + 1, Len(s))

\* what mmap returns when it fails: (void*) -1, which is not NULL
MAP_FAILED == <<-1>>

kDefaultHashFile == <<112, 119, 110, 101, 100, 45, 112, 97, 115, 115, 119, 111, 114, 100, 115, 45, 111, 114, 100, 101, 114, 101, 100, 45, 98, 121, 45, 104, 97, 115, 104, 46, 98, 105, 110>>   \* "pwned-passwords-ordered-by-hash.bin"

kDefaultTextHashFile == <<112, 119, 110, 101, 100, 45, 112, 97, 115, 115, 119, 111, 114, 100, 115, 45, 111, 114, 100, 101, 114, 101, 100, 45, 50, 46, 48, 46, 116, 120, 116>>   \* "pwned-passwords-ordered-2.0.txt"

\* the globals of find-pwned.c on entry to main; find-pwned-password-hash.c
\* has hash_file (g_text_hash_file), verbose, print_hash, password and
\* secure of them
Globals(f) ==
    [hash_file |-> IF f = "bin" THEN kDefaultHashFile ELSE kDefaultTextHashFile,
     verbose |-> 0, quiet |-> 0, print_index |-> 0, print_password |-> 0,
     print_hash |-> 0, print_count |-> 1, password |-> 0, secure |-> 1,
     print_found |-> 1, print_not_found |-> 1,
     delimiter |-> <<58>>]   \* ":"

\* the while loop of IsOption from input[i] and descriptor[d] on: rval and
\* the index input has reached
RECURSIVE IsOptionWalk(_, _, _, _)
IsOptionWalk(input, i, descriptor, d) ==
    IF At(input, i) = 0 \/ At(input, i) = 61   \* '='
    THEN [rval |-> IF At(descriptor, d) = 0 \/ At(descriptor, d) = 58 THEN 1 ELSE 0,   \* ':'
          i |-> i]
    ELSE IF At(descriptor, d) = 0
            \/ (At(descriptor, d) # 58 /\ At(input, i) # At(descriptor, d))   \* ':'
    THEN [rval |-> 0, i |-> i]
    ELSE IsOptionWalk(input, IF At(descriptor, d) # 58 THEN i + 1 ELSE i,   \* ':'
                      descriptor, d + 1)

\* int IsOption(input, value_ptr, descriptor): its return value and the
\* *value_ptr it stores (NULLBUF for NULL)
IsOption(input, descriptor) ==
    LET w == IF At(input, 0) = 45   \* '-'
             THEN IsOptionWalk(input, IF At(input, 1) = 45 THEN 2 ELSE 1, descriptor, 0)   \* '-'
             ELSE [rval |-> 0, i |-> 0]
    IN  [rval |-> w.rval,
         value |-> IF w.rval = 1 /\ At(input, w.i) = 61   \* '='
                   THEN From(input, w.i + 1) ELSE NULLBUF]

\* int IsFlagOption(input, flag_value_ptr, descriptor): its return value
\* and *flag_value_ptr afterwards, flag being its value before
IsFlagOption(input, flag, descriptor) ==
    LET dash == At(input, 0) = 45   \* '-'
        plain == IF dash THEN IsOption(input, descriptor).rval ELSE 0
        k == IF At(input, 1) = 45 THEN 1 ELSE 0   \* '-'
        negated == IF dash /\ plain = 0 /\ At(input, k + 1) = 110   \* 'n'
                      /\ At(input, k + 2) = 111 /\ At(input, k + 3) = 45   \* 'o' '-'
                   THEN IsOption(From(input, k + 3), descriptor).rval ELSE 0
        rval == IF plain # 0 THEN plain ELSE negated
    IN  [rval |-> rval,
         flag |-> IF rval = 0 THEN flag ELSE IF plain # 0 THEN 1 ELSE 0]

\* an IsFlagOption branch of ParseOptions that matched: the flag stored
SetFlag(p, field, arg, descriptor) ==
    [p EXCEPT !.g[field] = IsFlagOption(arg, p.g[field], descriptor).flag]

\* one pass of the for loop of ParseOptions (find-pwned.c) on arg; p holds
\* the globals, the arguments kept, end_of_options and the exit code once
\* the program has exited (-1 before)
ParseArg_bin(p, arg) ==
    IF p.end_of_options = 1 \/ At(arg, 0) # 45   \* '-'
    THEN [p EXCEPT !.args = Append(@, arg)]
    ELSE IF At(arg, 1) = 45 /\ At(arg, 2) = 0   \* '-'
    THEN [p EXCEPT !.end_of_options = 1]
    ELSE IF IsOption(arg, <<104, 58, 101, 108, 112>>).rval # 0   \* "h:elp"
    THEN [p EXCEPT !.exit = 0]
    ELSE IF IsFlagOption(arg, 0, <<113, 58, 117, 105, 101, 116>>).rval # 0   \* "q:uiet"
    THEN SetFlag(p, "quiet", arg, <<113, 58, 117, 105, 101, 116>>)   \* "q:uiet"
    ELSE IF IsOption(arg, <<100, 58, 101, 108, 105, 109, 58, 105, 116, 101, 114>>).rval # 0   \* "d:elim:iter"
    THEN IF IsOption(arg, <<100, 58, 101, 108, 105, 109, 58, 105, 116, 101, 114>>).value = NULLBUF   \* "d:elim:iter"
         THEN [p EXCEPT !.exit = 2]
         ELSE [p EXCEPT !.g.delimiter = IsOption(arg, <<100, 58, 101, 108, 105, 109, 58, 105, 116, 101, 114>>).value]   \* "d:elim:iter"
    ELSE IF IsFlagOption(arg, 0, <<112, 58, 97, 115, 115, 119, 111, 114, 100>>).rval # 0   \* "p:assword"
    THEN SetFlag(p, "password", arg, <<112, 58, 97, 115, 115, 119, 111, 114, 100>>)   \* "p:assword"
    ELSE IF IsFlagOption(arg, 0, <<112, 105>>).rval # 0   \* "pi"
    THEN SetFlag(p, "print_index", arg, <<112, 105>>)   \* "pi"
    ELSE IF IsFlagOption(arg, 0, <<112, 112>>).rval # 0   \* "pp"
    THEN SetFlag(p, "print_password", arg, <<112, 112>>)   \* "pp"
    ELSE IF IsFlagOption(arg, 0, <<112, 104>>).rval # 0   \* "ph"
    THEN SetFlag(p, "print_hash", arg, <<112, 104>>)   \* "ph"
    ELSE IF IsFlagOption(arg, 0, <<112, 99>>).rval # 0   \* "pc"
    THEN SetFlag(p, "print_count", arg, <<112, 99>>)   \* "pc"
    ELSE IF IsOption(arg, <<102, 58, 105, 108, 101>>).rval # 0   \* "f:ile"
    THEN IF IsOption(arg, <<102, 58, 105, 108, 101>>).value = NULLBUF   \* "f:ile"
         THEN [p EXCEPT !.exit = 2]
         ELSE [p EXCEPT !.g.hash_file = IsOption(arg, <<102, 58, 105, 108, 101>>).value]   \* "f:ile"
    ELSE IF IsFlagOption(arg, 0, <<115, 58, 101, 99, 117, 114, 101>>).rval # 0   \* "s:ecure"
    THEN SetFlag(p, "secure", arg, <<115, 58, 101, 99, 117, 114, 101>>)   \* "s:ecure"
    ELSE IF IsFlagOption(arg, 0, <<112, 102>>).rval # 0   \* "pf"
    THEN SetFlag(p, "print_found", arg, <<112, 102>>)   \* "pf"
    ELSE IF IsFlagOption(arg, 0, <<112, 110, 102>>).rval # 0   \* "pnf"
    THEN SetFlag(p, "print_not_found", arg, <<112, 110, 102>>)   \* "pnf"
    ELSE IF IsFlagOption(arg, 0, <<118, 58, 101, 114, 98, 111, 115, 101>>).rval # 0   \* "v:erbose"
    THEN SetFlag(p, "verbose", arg, <<118, 58, 101, 114, 98, 111, 115, 101>>)   \* "v:erbose"
    ELSE IF IsOption(arg, <<86>>).rval # 0 \/ IsOption(arg, <<118, 101, 114, 115, 105, 111, 110>>).rval # 0   \* "V" "version"
    THEN [p EXCEPT !.exit = 0]
    ELSE [p EXCEPT !.exit = 2]

\* one pass of the for loop of ParseOptions (find-pwned-password-hash.c),
\* whose PrintUsageError exits with 1
ParseArg_text(p, arg) ==
    IF p.end_of_options = 1 \/ At(arg, 0) # 45   \* '-'
    THEN [p EXCEPT !.args = Append(@, arg)]
    ELSE IF At(arg, 1) = 45 /\ At(arg, 2) = 0   \* '-'
    THEN [p EXCEPT !.end_of_options = 1]
    ELSE IF IsOption(arg, <<104, 58, 101, 108, 112>>).rval # 0   \* "h:elp"
    THEN [p EXCEPT !.exit = 0]
    ELSE IF IsFlagOption(arg, 0, <<112, 58, 97, 115, 115, 119, 111, 114, 100>>).rval # 0   \* "p:assword"
    THEN SetFlag(p, "password", arg, <<112, 58, 97, 115, 115, 119, 111, 114, 100>>)   \* "p:assword"
    ELSE IF IsFlagOption(arg, 0, <<101, 58, 99, 104, 111, 58, 45, 104, 97, 115, 104>>).rval # 0   \* "e:cho:-hash"
    THEN SetFlag(p, "print_hash", arg, <<101, 58, 99, 104, 111, 58, 45, 104, 97, 115, 104>>)   \* "e:cho:-hash"
    ELSE IF IsOption(arg, <<102, 58, 105, 108, 101>>).rval # 0   \* "f:ile"
    THEN IF IsOption(arg, <<102, 58, 105, 108, 101>>).value = NULLBUF   \* "f:ile"
         THEN [p EXCEPT !.exit = 2]
         ELSE [p EXCEPT !.g.hash_file = IsOption(arg, <<102, 58, 105, 108, 101>>).value]   \* "f:ile"
    ELSE IF IsFlagOption(arg, 0, <<115, 58, 101, 99, 117, 114, 101>>).rval # 0   \* "s:ecure"
    THEN SetFlag(p, "secure", arg, <<115, 58, 101, 99, 117, 114, 101>>)   \* "s:ecure"
    ELSE [p EXCEPT !.exit = 1]

\* the for loop of ParseOptions from argv[i] on; the program is gone once
\* a pass has exited
RECURSIVE ParseLoop(_, _, _, _)
ParseLoop(f, p, args, i) ==
    IF i > Len(args) \/ p.exit >= 0 THEN p
    ELSE ParseLoop(f, IF f = "bin" THEN ParseArg_bin(p, args[i])
                      ELSE ParseArg_text(p, args[i]), args, i + 1)

\* ParseOptions with end_of_options set from the start
ParseOptions_ended(f, globals, args) ==
    ParseLoop(f, [g |-> globals, args |-> <<>>, end_of_options |-> 1, exit |-> -1],
              args, 1)

\* int ParseOptions(int argc, char* argv[]), args being argv[1..argc-1]:
\* the globals and the arguments left in argv, or the exit code
ParseOptions(f, globals, args) ==
    ParseLoop(f, [g |-> globals, args |-> <<>>, end_of_options |-> 0, exit |-> -1],
              args, 1)

\* uint8_t* sha1_buffer_bin(data, size, bin): the 20 bytes of the digest
\* of data, most significant byte of h[0] first
sha1_buffer_bin(data_, size) ==
    LET obj == sha1_end(sha1_update(sha1_init_flags(sha1_initialized, SHA1_FLAGS_DEFAULT),
                                    data_, size))
    IN  [n \in 1..SHA1_BINARY_BYTES |-> HashByte(obj.h, Xor3(n - 1))]

\* the fields handle_input (find-pwned.c) prints for one item, in order
PrintedFields(g_, g_count, input, hash, count) ==
    (IF g_.print_index # 0 THEN <<[f |-> "index", v |-> g_count]>> ELSE <<>>)
    \o (IF g_.print_password # 0 /\ g_.password # 0
        THEN <<[f |-> "password", v |-> input]>> ELSE <<>>)
    \o (IF g_.print_hash # 0 THEN <<[f |-> "hash", v |-> HexText(hash, "upper")]>> ELSE <<>>)
    \o (IF g_.print_count # 0 THEN <<[f |-> "count", v |-> count]>> ELSE <<>>)

\* handle_input (find-pwned.c) from its call of find_hash on
handle_lookup_bin(g_, g_count, input, fdata, file_size, hash) ==
    LET r == find_hash("bin", fdata, file_size, hash, [found |-> 1, count |-> 0])
    IN  [rets |-> {r.found}, err |-> "none", looked |-> TRUE,
         found |-> r.found, count |-> r.count,
         out |-> IF g_.quiet = 0 /\ (\/ (r.found # 0 /\ g_.print_found # 0)
                                     \/ (r.found = 0 /\ g_.print_not_found # 0))
                 THEN PrintedFields(g_, g_count, input, hash, r.count)
                 ELSE <<>>]

\* int handle_input(input, file_data, file_size) of find-pwned.c, g_count
\* being the global after its increment: the values it can return, the
\* error it reports, whether it called find_hash and with what result,
\* and what it printed
handle_input_bin(g_, g_count, input, fdata, file_size) ==
    IF g_.password # 0
    THEN handle_lookup_bin(g_, g_count, input, fdata, file_size,
                           sha1_buffer_bin(input, Len(input)))
    ELSE IF Len(input) # kTextHashChars
    THEN [rets |-> {0}, err |-> "length", looked |-> FALSE,
          found |-> 0, count |-> 0, out |-> <<>>]
    ELSE IF hex_decode(input).bad >= 0
    THEN [rets |-> {0}, err |-> "hex", looked |-> FALSE,
          found |-> 0, count |-> 0, out |-> <<>>]
    ELSE handle_lookup_bin(g_, g_count, input, fdata, file_size,
                           hex_decode(input).hash)

\* handle_input (find-pwned-password-hash.c) from its call of find_hash
\* on; the function ends without a return statement, so the value its
\* caller reads is indeterminate
handle_lookup_text(g_, fdata, file_size, hash) ==
    LET r == find_hash("text", fdata, file_size, hash, [found |-> 1, count |-> 0])
    IN  [rets |-> {0, 1}, err |-> "none", looked |-> TRUE,
         found |-> r.found, count |-> r.count,
         out |-> IF g_.print_hash # 0
                 THEN <<[f |-> "hash", v |-> hash], [f |-> "count", v |-> r.count]>>
                 ELSE <<[f |-> "count", v |-> r.count]>>]

\* int handle_input(input, file_data, file_size) of
\* find-pwned-password-hash.c
handle_input_text(g_, input, fdata, file_size) ==
    IF g_.password # 0
    THEN handle_lookup_text(g_, fdata, file_size,
             sha1_buffer_flags(input, Len(input), SHA1_FLAG_UPPER_CASE))
    ELSE IF Len(input) # kTextHashChars
    THEN [rets |-> {0}, err |-> "length", looked |-> FALSE,
          found |-> 0, count |-> 0, out |-> <<>>]
    ELSE handle_lookup_text(g_, fdata, file_size, input)

handle_input(f, g_, g_count, input, fdata, file_size) ==
    IF f = "bin" THEN handle_input_bin(g_, g_count, input, fdata, file_size)
    ELSE handle_input_text(g_, input, fdata, file_size)

\* not_found that only remembers the last query
not_found_last(not_found, returned) == IF returned = 0 THEN 1 ELSE 0

\* if (!handle_input(...)) not_found = 1: not_found afterwards
not_found_after(not_found, returned) == IF returned = 0 THEN 1 ELSE not_found

\* the test of main on the size of the corpus file that only looks for 0
invalid_file_size_zero(file_size, width) == file_size = 0

\* (0 == file_size) || (0 != (file_size % width)) of main
invalid_file_size(file_size, width) == file_size = 0 \/ file_size % width # 0

\* the number of characters fgets(line, n, stdin) reads from s, which is
\* not empty: through the first line end, n - 1 at most
fgets_len(s, n, k) ==
    LET room == IF Len(s) < n - 1 THEN Len(s) ELSE n - 1
        ends == {i \in (k + 1)..room : s[i] = 10}
    IN  IF k >= room THEN k
        ELSE IF ends = {} THEN room
        ELSE CHOOSE i \in ends : \A j \in ends : i <= j

\* the line main reads from stdin: fgets(line, 0x100, stdin) in
\* find-pwned.c, getline in find-pwned-password-hash.c
ReadLength(f, s) == fgets_len(s, IF f = "bin" THEN 256 ELSE Len(s) + 1, 0)

\* while ((n > 0) && ('\n' == line[n-1])) line[--n] = 0
RECURSIVE chomp(_)
chomp(line) ==
    IF Len(line) > 0 /\ line[Len(line)] = 10
    THEN chomp(SubSeq(line, 1, Len(line) - 1))
    ELSE line

(***************************************************************************)
(* A run of either program.  env is what the run is started in: the kind   *)
(* of corpus file, whether stdin is a terminal, and the queries given;     *)
(* run holds the locals of main with the terminal's echo flag and whether  *)
(* the corpus is mapped; log has one entry for each call of handle_input.  *)
(***************************************************************************)

\* the records of the corpus of a run
MainRecs == <<1, 3, 5, 7>>

\* the corpus file: a good one ("ok", and "nomap" where mmap fails), none
\* ("noent"), one that cannot be seeked ("nosize"), an empty one and one
\* with a byte too many ("ragged")
FileKinds == {"ok", "noent", "nosize", "empty", "ragged", "nomap"}

\* what lseek(fd, 0, SEEK_END) returns
SeekEnd(f, kind) ==
    CASE kind = "nosize" -> -1
      [] kind = "empty" -> 0
      [] kind = "ragged" -> Len(FileOf(f, MainRecs)) + 1
      [] OTHER -> Len(FileOf(f, MainRecs))

\* the query texts: a hash of the corpus in mixed case, the hash of its
\* last record, an absent hash, a hash a character short, a hash whose
\* last character is no hex digit, and a password whose hash the corpus holds
QueryTexts ==
    { HexText(Universe[3], "mixed"),
      HexText(Universe[7], "upper"),
      HexText(Universe[2], "upper"),
      SubSeq(HexText(Universe[3], "mixed"), 1, kTextHashChars - 1),
      [HexText(Universe[3], "mixed") EXCEPT ![kTextHashChars] = 71],   \* 'G'
      <<97, 98, 99>> }   \* "abc"

RECURSIVE SeqsUpTo(_, _)
SeqsUpTo(S, n) ==
    IF n = 0 THEN {<<>>}
    ELSE SeqsUpTo(S, n - 1) \cup {Append(s, x) : s \in SeqsUpTo(S, n - 1), x \in S}

\* the options a run is started with
OptionLists(f) ==
    IF f = "bin"
    THEN { <<>>,
           <<<<45, 113>>>>,   \* "-q"
           <<<<45, 112>>, <<45, 112, 112>>, <<45, 100, 61, 44>>>>,   \* "-p" "-pp" "-d=,"
           <<<<45, 112, 105>>, <<45, 112, 104>>, <<45, 45, 110, 111, 45, 112, 99>>>>,   \* "-pi" "-ph" "--no-pc"
           <<<<45, 110, 111, 45, 112, 102>>>>,   \* "-no-pf"
           <<<<45, 110, 111, 45, 112, 110, 102>>, <<45, 118>>>>,   \* "-no-pnf" "-v"
           <<<<45, 45, 104, 101, 108, 112>>>>,   \* "--help"
           <<<<45, 120>>>>,   \* "-x"
           <<<<45, 102>>>>,   \* "-f"
           <<<<45, 112>>, <<45, 110, 111, 45, 115, 101, 99, 117, 114, 101>>>> }   \* "-p" "-no-secure"
    ELSE { <<>>,
           <<<<45, 112>>>>,   \* "-p"
           <<<<45, 101>>>>,   \* "-e"
           <<<<45, 45, 104, 101, 108, 112>>>>,   \* "--help"
           <<<<45, 120>>>> }   \* "-x"

\* void echo_on_stdin(int enable): the ECHO bit of the terminal's c_lflag
\* after tcsetattr
echo_on_stdin(enable) == IF enable # 0 THEN 1 ELSE 0

\* the lines of stdin, each with its line end
RECURSIVE Lines(_)
Lines(qs) == IF qs = <<>> THEN <<>> ELSE Head(qs) \o <<10>> \o Lines(Tail(qs))

InitMain ==
    /\ sha1 = NULL
    /\ idleSha
    /\ idleVec
    /\ fmt \in {"bin", "text"}
    /\ recs = MainRecs
    /\ file_data = <<>>
    /\ query = <<>>
    /\ target = <<>>
    /\ fpc = "off"
    /\ srch = [lo |-> 0, hi |-> 0, mid |-> 0, iters |-> 0]
    /\ ret = [found |-> 0, count |-> 0]
    /\ thr = <<>>
    /\ g = Globals(fmt)
    \* the queries: up to MaxQueries of QueryTexts, or (on stdin) one line
    \* of 0x100 characters, as long as the line buffer of find-pwned.c
    /\ \E opts \in OptionLists(fmt),
          qs \in SeqsUpTo(QueryTexts, MaxQueries) \cup {<<[i \in 1..256 |-> 97]>>},
          from \in {"argv", "stdin"}, tty \in {0, 1} :
           /\ from = "argv" => (qs # <<>> /\ tty = 0 /\ Len(qs[1]) <= kTextHashChars)
           /\ argv = opts \o (IF from = "argv" THEN qs ELSE <<>>)
           /\ stdin = IF from = "stdin" THEN Lines(qs) ELSE <<>>
           /\ \E kind \in FileKinds :
                  env = [file |-> kind, tty |-> tty, queries |-> qs]
    /\ mpc = "parse"
    /\ run = [i |-> 1, not_found |-> 0, g_count |-> 0, file_size |-> 0,
              echo |-> 1, echo_calls |-> <<>>, fd |-> "none", mapped |-> FALSE,
              stage |-> "start"]
    /\ exit_code = -1
    /\ log = <<>>
    /\ p2b = <<>>

\* main up to the return of ParseOptions, which may exit
MainParse ==
    /\ mpc = "parse"
    /\ \E p \in {ParseOptions(fmt, g, argv)} :
           /\ g' = p.g
           /\ argv' = IF p.exit >= 0 THEN argv ELSE p.args
           /\ mpc' = IF p.exit >= 0 THEN "exit" ELSE "open"
           /\ exit_code' = p.exit
    /\ run' = [run EXCEPT !.stage = "parse"]
    /\ UNCHANGED <<stdin, env, log, p2b>>
    /\ UNCHANGED <<shaVars, vecVars, findVars>>

\* main from open to the start of its loop over the queries: open, lseek,
\* the test of the file size, mmap, and echo_on_stdin(0) when stdin is read
MainOpen ==
    /\ mpc = "open"
    /\ \E file_size \in {SeekEnd(fmt, env.file)} :
         IF env.file = "noent"
         THEN /\ mpc' = "exit" /\ exit_code' = 2
              /\ run' = [run EXCEPT !.stage = "open"]
              /\ UNCHANGED file_data
         ELSE IF file_size < 0
         THEN /\ mpc' = "exit" /\ exit_code' = 3
              /\ run' = [run EXCEPT !.stage = "open", !.fd = "open"]
              /\ UNCHANGED file_data
         ELSE IF invalid_file_size(file_size,
                     IF fmt = "bin" THEN kPwnedInfoSize ELSE kTextHashLineBytes)
         THEN /\ mpc' = "exit" /\ exit_code' = IF fmt = "bin" THEN 3 ELSE 4
              /\ run' = [run EXCEPT !.stage = "open", !.file_size = file_size,
                                     !.fd = "open"]
              /\ UNCHANGED file_data
         ELSE /\ file_data' = IF env.file = "nomap" THEN MAP_FAILED
                              ELSE FileOf(fmt, recs)
              /\ mpc' = IF Len(argv) + 1 > 1 THEN "args" ELSE "stdin"
              /\ run' = [run EXCEPT
                            !.stage = "loop",
                            !.file_size = file_size,
                            !.fd = "open",
                            !.mapped = env.file # "nomap",
                            !.echo = IF Len(argv) + 1 > 1 THEN @
                                     ELSE IF g.password # 0 /\ g.secure # 0 /\ env.tty # 0
                                     THEN echo_on_stdin(0) ELSE @,
                            !.echo_calls =
                                     IF Len(argv) + 1 > 1 THEN @
                                     ELSE IF g.password # 0 /\ g.secure # 0 /\ env.tty # 0
                                     THEN Append(@, 0) ELSE @]
              /\ UNCHANGED exit_code
    /\ UNCHANGED <<fmt, recs, query, target, fpc, srch, ret, thr>>
    /\ UNCHANGED <<g, argv, stdin, env, log, p2b>>
    /\ UNCHANGED <<shaVars, vecVars>>

\* the body of either loop of main: handle_input on input.  Reading a
\* record through the pointer of a failed mmap ends the run with a signal
\* (what handle_input would do on the file's bytes only tells whether it
\* reads one).
HandleInput(input) ==
    \E h \in {handle_input(fmt, g, run.g_count + 1, input,
                           IF file_data = MAP_FAILED THEN FileOf(fmt, recs)
                           ELSE file_data,
                           run.file_size)} :
        IF h.looked /\ file_data = MAP_FAILED
        THEN /\ mpc' = "signal"
             /\ run' = [run EXCEPT !.stage = "signal"]
             /\ UNCHANGED log
        ELSE \E returned \in h.rets :
               /\ run' = [run EXCEPT
                             !.i = @ + 1,
                             !.g_count = IF fmt = "bin" THEN @ + 1 ELSE @,
                             !.not_found = not_found_after(@, returned)]
               /\ log' = Append(log, [input |-> input, err |-> h.err,
                                      looked |-> h.looked, found |-> h.found,
                                      count |-> h.count, out |-> h.out,
                                      returned |-> returned])
               /\ UNCHANGED mpc

\* one pass of for (int i = 1; i < argc; ++i)
MainArg ==
    /\ mpc = "args"
    /\ run.i < Len(argv) + 1
    /\ HandleInput(argv[run.i])
    /\ UNCHANGED <<g, argv, stdin, env, exit_code, p2b>>
    /\ UNCHANGED <<shaVars, vecVars, findVars>>

\* one pass of the loop over the lines of stdin
MainLine ==
    /\ mpc = "stdin"
    /\ stdin # <<>>
    /\ \E n \in {ReadLength(fmt, stdin)} :
           /\ HandleInput(chomp(SubSeq(stdin, 1, n)))
           /\ stdin' = SubSeq(stdin, n + 1, Len(stdin))
    /\ UNCHANGED <<g, argv, env, exit_code, p2b>>
    /\ UNCHANGED <<shaVars, vecVars, findVars>>

\* what main returns after its loop
main_return(f, not_found) == IF f = "bin" THEN (IF not_found # 0 THEN 1 ELSE 0) ELSE 0

\* main after its loop: echo_on_stdin(1) when stdin was read, munmap, return
MainReturn ==
    /\ \/ mpc = "args" /\ run.i >= Len(argv) + 1
       \/ mpc = "stdin" /\ stdin = <<>>
    /\ run' = [run EXCEPT
                  !.stage = "return",
                  !.mapped = FALSE,
                  !.echo = IF mpc = "stdin" /\ g.password # 0 /\ g.secure # 0 /\ env.tty # 0
                           THEN echo_on_stdin(1) ELSE @,
                  !.echo_calls =
                           IF mpc = "stdin" /\ g.password # 0 /\ g.secure # 0 /\ env.tty # 0
                           THEN Append(@, 1) ELSE @]
    /\ mpc' = "exit"
    /\ exit_code' = main_return(fmt, run.not_found)
    /\ UNCHANGED <<g, argv, stdin, env, log, p2b>>
    /\ UNCHANGED <<shaVars, vecVars, findVars>>

NextMain == MainParse \/ MainOpen \/ MainArg \/ MainLine \/ MainReturn

SpecMain == InitMain /\ [][NextMain]_vars

\* a query that is not the hex text of a hash
Malformed(q) == Len(q) # kTextHashChars \/ \E p \in 1..Len(q) : hexval(q[p]) < 0

\* C7: in hash mode a query of the wrong length or with a character that
\* is no hex digit is reported as an error without a lookup, and a run
\* that returns from main has handled every query it was given.
C7_InputErrors ==
    /\ \A k \in 1..Len(log) :
           (g.password = 0 /\ Malformed(log[k].input))
               => (log[k].err # "none" /\ ~log[k].looked)
    /\ (mpc = "exit" /\ run.stage = "return") => Len(log) = Len(env.queries)

\* C8: once main has looked at a corpus file of size zero or of a size
\* that is no multiple of the record width, the process has exited with
\* an error code; the file is never mapped and no query is handled.
C8_BadCorpusRejected ==
    (mpc # "off" /\ env.file \in {"empty", "ragged"})
        => /\ ~run.mapped /\ file_data = <<>>
           /\ log = <<>>
           /\ mpc \in {"parse", "open", "exit"}
           /\ (mpc = "exit" /\ run.stage = "open") => exit_code >= 2

\* the binary program given queries and a corpus file with a byte too
\* many has exited with 3
C8_Witness ==
    /\ fmt = "bin" /\ env.file = "ragged" /\ env.queries # <<>>
    /\ mpc = "exit" /\ run.stage = "open"
    /\ run.file_size = Len(FileOf(fmt, recs)) + 1
    /\ exit_code = 3

ErrorOccurred ==
    \/ \E k \in 1..Len(argv) : argv[k] \in {<<45, 120>>, <<45, 102>>}   \* "-x" "-f"
    \/ run.stage \notin {"start", "parse"} /\ env.file # "ok"
    \/ \E k \in 1..Len(log) : g.password = 0 /\ Malformed(log[k].input)

\* C11: every run of the binary-corpus program in which an error occurred
\* ends with an exit code that is neither 0 nor 1.
C11_ErrorExitCodes ==
    (fmt = "bin" /\ mpc = "exit" /\ ErrorOccurred) => exit_code \notin {0, 1}

\* C12: when the text-corpus program has returned from main after a query
\* whose hash the corpus does not hold, it printed the count 0 for that
\* query and its exit code is not 0.
C12_NotFoundStatus ==
    (fmt = "text" /\ mpc = "exit" /\ run.stage = "return")
        => \A k \in 1..Len(log) :
               (log[k].looked /\ log[k].found = 0)
                   => /\ log[k].out # <<>>
                      /\ log[k].out[Len(log[k].out)] = [f |-> "count", v |-> 0]
                      /\ exit_code # 0

(***************************************************************************)
(* The digest interface called with every kind of argument: sha1_update    *)
(* with a null object, null data or no bytes, sha1_end, and sha1_text on   *)
(* the ended object.  call records the last call: the function, the kind   *)
(* of its arguments, the object pointer it was given, the object and the   *)
(* rendered text before it, what it returned, and how many calls without   *)
(* effect and renderings came before.                                      *)
(***************************************************************************)
ApiFlags == {SHA1_FLAGS_DEFAULT, SHA1_FLAG_UPPER_CASE, 2}
ApiSizes == {3, 64}
ApiArgs == {"valid", "null_state", "null_data", "zero_size"}

InitApi ==
    /\ \E f \in ApiFlags : sha1 = sha1_init_flags(sha1_initialized, f)
    /\ pat \in Patterns
    /\ pos = 0
    /\ ended = 0
    /\ late = 0
    /\ call = [op |-> "init", args |-> "valid", given |-> NULL, before |-> NULL,
               prev |-> <<>>, returned |-> NULL, n |-> 0]
    /\ idleVec
    /\ idleFind
    /\ idleMain

\* sha1_update(state, data, size) on the object that is not ended yet
ApiUpdate ==
    \E kind \in ApiArgs, n \in ApiSizes :
        /\ ended = 0
        /\ IF kind = "valid" THEN pos + n <= MaxBytes ELSE call.n < MaxCalls
        /\ \E state \in {IF kind = "null_state" THEN NULL ELSE sha1},
              data \in {IF kind = "null_data" THEN NULLBUF ELSE Fragment(pat, pos, n)},
              size \in {IF kind = "zero_size" THEN 0 ELSE n} :
             \E obj \in {sha1_update(state, data, size)} :
                /\ sha1' = IF state = NULL THEN sha1 ELSE obj
                /\ call' = [op |-> "update", args |-> kind, given |-> state,
                            before |-> sha1, prev |-> text, returned |-> obj,
                            n |-> IF kind = "valid" THEN call.n ELSE call.n + 1]
        /\ pos' = IF kind = "valid" THEN pos + n ELSE pos
        /\ UNCHANGED <<pat, ended, late>>
        /\ UNCHANGED <<vecVars, findVars, mainVars>>

\* sha1_end(&sha1)
ApiEnd ==
    /\ ended = 0
    /\ \E obj \in {sha1_end(sha1)} :
           /\ sha1' = obj
           /\ call' = [op |-> "end", args |-> "valid", given |-> sha1,
                       before |-> sha1, prev |-> text, returned |-> obj,
                       n |-> call.n]
    /\ ended' = 1
    /\ UNCHANGED <<pat, pos, late>>
    /\ UNCHANGED <<vecVars, findVars, mainVars>>

\* sha1_text(&sha1, text) on the ended object
ApiText ==
    /\ ended = 1
    /\ call.n < MaxCalls
    /\ text' = sha1_text(sha1)
    /\ sha1' = sha1_text_leaves(sha1)
    /\ call' = [op |-> "text", args |-> "valid", given |-> sha1,
                before |-> sha1, prev |-> text, returned |-> sha1_text(sha1),
                n |-> call.n + 1]
    /\ UNCHANGED <<pat, pos, ended, late>>
    /\ UNCHANGED <<vpc, vec, frame>>
    /\ UNCHANGED <<findVars, mainVars>>

NextApi == ApiUpdate \/ ApiEnd \/ ApiText

SpecApi == InitApi /\ [][NextApi]_vars

\* C13: a sha1_update call with a null object, with null data or with
\* size 0 returns the object pointer it was given and leaves the object
\* as it was (h, block, bytes, blocks, flags).
C13_UpdateNoOp ==
    (call.op = "update" /\ call.args # "valid")
        => /\ call.returned = call.given
           /\ sha1 = call.before

\* a call with null data made on an object that holds hashed blocks and
\* staged bytes, after a call with size 0
C13_Witness ==
    /\ call.op = "update"
    /\ call.args = "null_data"
    /\ call.n = 2
    /\ sha1.blocks >= 1
    /\ sha1.bytes % SHA1_BLOCK_BYTES # 0

\* the text t with its letters in lower case, and in upper case
LowerCase(t) == [p \in 1..Len(t) |-> IF t[p] >= 65 /\ t[p] <= 90 THEN t[p] + 32 ELSE t[p]]
UpperCase(t) == [p \in 1..Len(t) |-> IF t[p] >= 97 /\ t[p] <= 122 THEN t[p] - 32 ELSE t[p]]

\* the ended object of the prefix fed so far, had the flags been f
EndedWith(f) ==
    sha1_end(sha1_update(sha1_init_flags(sha1_initialized, f), Fragment(pat, 0, pos), pos))

\* C14: the five accumulator words of the ended object are those of the
\* same input digested under any other flags value, and the two renderings
\* differ in letter case only: upper case when SHA1_FLAG_UPPER_CASE is
\* set, lower case otherwise.
C14_FlagsNonInterference ==
    call.op = "end"
        => \A f \in ApiFlags :
               \E o \in {EndedWith(f)} :
                   /\ o.h = sha1.h
                   /\ LowerCase(sha1_text(o)) = LowerCase(sha1_text(sha1))
                   /\ sha1_text(o) = IF f % 2 = 1 THEN UpperCase(sha1_text(sha1))
                                     ELSE LowerCase(sha1_text(sha1))

\* an ended object of upper-case flags whose rendering holds a letter, so
\* that the lower-case rendering differs from it
C14_Witness ==
    /\ call.op = "end"
    /\ sha1.flags = SHA1_FLAG_UPPER_CASE
    /\ pos > SHA1_BLOCK_BYTES
    /\ \E p \in 1..(2 * SHA1_BINARY_BYTES) : sha1_text(sha1)[p] >= 65

\* C15: sha1_text on an ended object writes 40 characters, the same ones
\* as the call before it, and leaves the object as it was.
C15_TextIdempotent ==
    call.op = "text"
        => /\ Len(text) = 2 * SHA1_BINARY_BYTES
           /\ sha1 = call.before
           /\ call.prev # <<>> => text = call.prev

\* the second rendering of an ended object
C15_Witness ==
    /\ call.op = "text"
    /\ call.prev # <<>>
    /\ call.n = 2
    /\ pos > 0

\* C16: a run of main that has ended holds neither the descriptor of the
\* corpus file nor its mapping: each was released by the program on the
\* path it took.
C16_CorpusReleased ==
    mpc = "exit" => (run.fd # "open" /\ ~run.mapped)

\* the least k with 2^k >= n, for n >= 1
RECURSIVE CeilLog2(_)
CeilLog2(n) == IF n <= 1 THEN 0 ELSE 1 + CeilLog2((n + 1) \div 2)

\* C17: a find_hash call on a corpus of n >= 1 records compares the target
\* with a record (one comparison in each iteration of its loop) at most
\* ceil(log2(n)) + 1 times.
C17_LogComparisons ==
    fpc \in {"loop", "done"} => srch.iters <= CeilLog2(Len(recs)) + 1

\* a finished lookup that took all the comparisons the bound allows
C17_Witness ==
    /\ fpc = "done"
    /\ Len(recs) > MaxRecords
    /\ srch.iters = CeilLog2(Len(recs)) + 1

(***************************************************************************)
(* Concurrent lookups: MaxThreads threads, each in one find_hash call on   *)
(* the same mapped corpus, their steps interleaved.  thr[t] is the call of *)
(* thread t: its hash argument, its position, the found it returns and     *)
(* its *count (which starts as t, a value no other thread's starts with),  *)
(* and the storage of the locals lo, hi, mid.                              *)
(***************************************************************************)
Threads == 1..MaxThreads

\* where the call of thread t keeps lo, hi and mid: they are automatic
\* variables, so in the frame of its own call
frame_of_first(t) == 1

frame_of(t) == t

\* the hash arguments of the threads: every hash of Universe, and for the
\* text find_hash one text that is a character short
ThreadTargets(f) ==
    IF f = "bin" THEN {Universe[u] : u \in 1..Len(Universe)}
    ELSE {HexText(Universe[u], "upper") : u \in 1..Len(Universe)}
         \cup {SubSeq(HexText(Universe[1], "upper"), 1, kTextHashChars - 1)}

InitConc ==
    /\ sha1 = NULL
    /\ idleSha
    /\ idleVec
    /\ fmt \in {"bin", "text"}
    /\ recs = MainRecs
    /\ file_data = FileOf(fmt, recs)
    /\ query = <<>>
    /\ target = <<>>
    /\ fpc = "off"
    /\ srch = [lo |-> 0, hi |-> 0, mid |-> 0, iters |-> 0]
    /\ ret = [found |-> 0, count |-> 0]
    /\ \E hs \in [Threads -> ThreadTargets(fmt)] :
           thr = [t \in Threads |->
                     [hash |-> hs[t], pc |-> "call", lo |-> 0, hi |-> 0, mid |-> 0,
                      found |-> 1, count |-> t]]
    /\ idleMain

\* thread t is given the result r of a step of its call
ThreadStep(t, r) ==
    thr' = [thr EXCEPT ![frame_of(t)].lo = r.lo,
                       ![frame_of(t)].hi = r.hi,
                       ![frame_of(t)].mid = r.mid,
                       ![t].pc = r.pc,
                       ![t].found = r.found,
                       ![t].count = r.count]

\* thread t enters find_hash: the declarations, and the length test of
\* the text program
ThreadCall(t) ==
    /\ thr[t].pc = "call"
    /\ \E r \in {IF fmt = "bin" THEN find_hash_bin_enter(Len(file_data), thr[t])
                 ELSE find_hash_text_enter(Len(file_data), thr[t].hash, thr[t])} :
           ThreadStep(t, r)
    /\ UNCHANGED <<fmt, recs, file_data, query, target, fpc, srch, ret>>
    /\ UNCHANGED <<shaVars, vecVars, mainVars>>

\* thread t runs one iteration of the loop of find_hash
ThreadIter(t) ==
    /\ thr[t].pc = "loop"
    /\ \E r \in {IF fmt = "bin"
                 THEN find_hash_bin_iter(file_data, thr[t].hash, thr[frame_of(t)], thr[t])
                 ELSE find_hash_text_iter(file_data, thr[t].hash, thr[frame_of(t)], thr[t])} :
           ThreadStep(t, r)
    /\ UNCHANGED <<fmt, recs, file_data, query, target, fpc, srch, ret>>
    /\ UNCHANGED <<shaVars, vecVars, mainVars>>

NextConc == \E t \in Threads : ThreadCall(t) \/ ThreadIter(t)

SpecConc == InitConc /\ [][NextConc]_vars

\* the (found, count) of the call of thread t run alone
Alone(t) ==
    find_hash(fmt, file_data, Len(file_data), thr[t].hash, [found |-> 1, count |-> t])

copy_line(in, line) ==
    LET getchar(i) == IF i < Len(in) THEN in[i + 1] ELSE -1   \* char i, 0-based
        hex_val(c) == IF 48 <= c /\ c <= 57 THEN c - 48
                      ELSE IF 65 <= c /\ c <= 70 THEN 10 + c - 65
                      ELSE IF 97 <= c /\ c <= 102 THEN 10 + c - 97
                      ELSE -1
        \* get_hex_byte(&line.sha[k]) reads chars 2k and 2k + 1
        good(k) == hex_val(getchar(2 * k)) >= 0 /\ hex_val(getchar(2 * k + 1)) >= 0
        bad == {k \in 0..(SHA1_BINARY_BYTES - 1) : ~good(k)}
        stop == IF bad = {} THEN SHA1_BINARY_BYTES
                ELSE CHOOSE k \in bad : \A j \in bad : k <= j
        sha == [k \in 1..SHA1_BINARY_BYTES |->
                   IF k - 1 < stop
                   THEN 16 * hex_val(getchar(2 * (k - 1))) + hex_val(getchar(2 * (k - 1) + 1))
                   ELSE line.sha[k]]
        colon == 2 * SHA1_BINARY_BYTES
        \* fscanf(stdin, "%u", &count): white space, then decimal digits
        span == colon + 1 .. Len(in)
        first == IF \E i \in span : ~isspace(getchar(i))
                 THEN CHOOSE i \in span : ~isspace(getchar(i))
                                          /\ \A j \in span : j < i => isspace(getchar(j))
                 ELSE Len(in)
        last == IF \E i \in first..Len(in) : ~isdigit(getchar(i))
                THEN CHOOSE i \in first..Len(in) :
                         ~isdigit(getchar(i))
                         /\ \A j \in first..Len(in) : j < i => isdigit(getchar(j))
                ELSE Len(in)
        value[i \in first..last] ==
            IF i = first THEN 0 ELSE 10 * value[i - 1] + (getchar(i - 1) - 48)
        count == value[last]
        \* while (getchar() == ' ') ; reads the spaces and one more char
        after == IF \E i \in last..Len(in) : getchar(i) # 32
                 THEN CHOOSE i \in last..Len(in) :
                          getchar(i) # 32 /\ \A j \in last..Len(in) : j < i => getchar(j) = 32
                 ELSE Len(in)
        left(n) == IF n >= Len(in) THEN <<>> ELSE SubSeq(in, n + 1, Len(in))
    IN  IF stop < SHA1_BINARY_BYTES
        THEN [rval |-> 0, in |-> left(2 * stop + 2),
              line |-> [line EXCEPT !.sha = sha], out |-> <<>>]
        ELSE IF getchar(colon) # 58   \* ':'
        THEN [rval |-> 0, in |-> left(colon + 1),
              line |-> [line EXCEPT !.sha = sha], out |-> <<>>]
        ELSE IF last = first
        THEN [rval |-> 0, in |-> left(first),
              line |-> [line EXCEPT !.sha = sha], out |-> <<>>]
        ELSE [rval |-> 1,
              \* the char that ended the while loop, then getchar();
              in |-> left(after + 2),
              line |-> [sha |-> sha, count |-> count],
              \* write(1, &line, sizeof(line)): 20 bytes, then the count
              out |-> sha \o <<count % 256, (count \div 256) % 256,
                               (count \div 65536) % 256, (count \div 16777216) % 256>>]

\* the lines of stdin made from the records r, each space-padded to 61
\* characters (version 2.0) or not (version 3.0) and ended by CR LF or LF
RECURSIVE InputOf(_, _)
InputOf(r, st) ==
    IF r = <<>> THEN <<>>
    ELSE LET u == Head(r)
             head == HexText(Universe[u], IF u % 2 = 1 THEN "upper" ELSE "lower")
                         \o <<58>> \o Decimal(CountOf[u])
         IN  head
             \o (IF st.padded
                 THEN [i \in 1..(kTextHashLineBytes - 2 - Len(head)) |-> 32]
                 ELSE <<>>)
             \o (IF st.eol = "CRLF" THEN <<13, 10>> ELSE <<10>>)
             \o InputOf(Tail(r), st)

InitP2b ==
    /\ sha1 = NULL
    /\ idleSha
    /\ idleVec
    /\ fmt = "none"
    /\ \E S \in Corpora : recs = Ascending(S)
    /\ file_data = <<>>
    /\ query = <<>>
    /\ target = <<>>
    /\ fpc = "off"
    /\ srch = [lo |-> 0, hi |-> 0, mid |-> 0, iters |-> 0]
    /\ ret = [found |-> 0, count |-> 0]
    /\ thr = <<>>
    /\ g = <<>>
    /\ argv = <<>>
    /\ stdin = <<>>
    /\ env = <<>>
    /\ mpc = "off"
    /\ run = <<>>
    /\ exit_code = -1
    /\ log = <<>>
    /\ \E st \in [padded : BOOLEAN, eol : {"CRLF", "LF"}] :
           p2b = [in |-> InputOf(recs, st), out |-> <<>>,
                  line |-> [sha |-> [k \in 1..SHA1_BINARY_BYTES |-> 0], count |-> 0],
                  pc |-> "loop", copied |-> 0, style |-> st]

\* one pass of while (copy_line()) ; of main, which returns 0 when
\* copy_line returns 0
CopyLine ==
    /\ p2b.pc = "loop"
    /\ \E r \in {copy_line(p2b.in, p2b.line)} :
           p2b' = [p2b EXCEPT !.in = r.in,
                              !.out = @ \o r.out,
                              !.line = r.line,
                              !.pc = IF r.rval = 0 THEN "done" ELSE "loop",
                              !.copied = IF r.rval = 0 THEN @ ELSE @ + 1]
    /\ UNCHANGED <<g, argv, stdin, env, mpc, run, exit_code, log>>
    /\ UNCHANGED <<shaVars, vecVars, findVars>>

NextP2b == CopyLine

SpecP2b == InitP2b /\ [][NextP2b]_vars

\* C19: when pwned2bin has ended on the k well-formed lines made from
\* recs, in either style and with either line end, it has written the k
\* 24-byte records of those lines in input order: the 20 hash bytes and
\* the 32-bit count of each.
C19_EveryLineConverted ==
    p2b.pc = "done"
        => /\ p2b.copied = Len(recs)
           /\ Len(p2b.out) = kPwnedInfoSize * Len(recs)
           /\ p2b.out = FileOf("bin", recs)

\* main has started its loop over the lines of stdin with passwords as
\* input, a terminal as stdin and -no-secure not given
SecureStdin ==
    /\ run.stage \in {"loop", "return", "signal"}
    /\ Len(argv) = 0
    /\ g.password # 0 /\ g.secure # 0 /\ env.tty # 0

\* C20: in the binary-corpus program reading passwords from a terminal
\* without -no-secure, echo is off while the lines are read (one
\* echo_on_stdin(0) before the first) and on again once the run has ended
\* (one echo_on_stdin(1) after the last); in every other configuration
\* echo_on_stdin is never called.
C20_EchoProtocol ==
    fmt = "bin"
        => IF SecureStdin
           THEN /\ run.stage = "loop" => (run.echo = 0 /\ run.echo_calls = <<0>>)
                /\ run.stage \in {"return", "signal"}
                       => (run.echo = 1 /\ run.echo_calls = <<0, 1>>)
           ELSE run.echo = 1 /\ run.echo_calls = <<>>

\* C21: a run that read its queries from stdin and returned from main has
\* made one handle_input call for each line of stdin, in order, its input
\* being the line without its line end.
C21_LinePerQuery ==
    (mpc = "exit" /\ run.stage = "return" /\ Len(argv) = 0)
        => /\ Len(log) = Len(env.queries)
           /\ \A k \in 1..Len(log) :
                  k <= Len(env.queries) => log[k].input = env.queries[k]

\* C22: while the object is not ended, its byte counter is the number of
\* input bytes fed so far, every full block of them has been hashed (none
\* is kept), and the first bytes mod 64 bytes of block are the last
\* bytes mod 64 bytes of the input.
C22_StagingInvariant ==
    ended = 0
        => /\ sha1.bytes = pos
           /\ sha1.blocks = pos \div SHA1_BLOCK_BYTES
           /\ Staged(sha1) = [i \in 1..(pos % SHA1_BLOCK_BYTES) |->
                                 StreamByte(pat, pos - (pos % SHA1_BLOCK_BYTES) + i)]

\* two hashed blocks and a staged remainder of the stream whose bytes
\* differ, fed by calls that crossed a block boundary
C22_Witness ==
    /\ ended = 0
    /\ pat = 2
    /\ sha1.blocks = 2
    /\ pos % SHA1_BLOCK_BYTES = 2

\* what SHA-1 appends to the staged bytes of obj: 0x80, zero bytes up to
\* eight short of a block end, and the bit count in eight bytes, most
\* significant first
Padded(obj) ==
    LET r == obj.bytes % SHA1_BLOCK_BYTES
        zeros == IF r <= 55 THEN 55 - r ELSE 119 - r
        bits == 8 * obj.bytes
    IN  Staged(obj) \o <<128>> \o [i \in 1..zeros |-> 0]
        \o <<0, 0, 0, 0, (bits \div 16777216) % 256, (bits \div 65536) % 256,
             (bits \div 256) % 256, bits % 256>>

InitOpt ==
    /\ sha1 = NULL
    /\ idleSha
    /\ idleVec
    /\ idleFind
    /\ idleMain

\* one call of IsOption and one of IsFlagOption on the same input and
\* descriptor.  The inputs are zero to three dashes, "no-" or nothing, a
\* dash or nothing, a name and nothing, "=" or "=v"; the names are the
\* prefixes of each descriptor without its colons, that text with one more
\* character and the descriptor as written.
OptMatch ==
    LET descriptors == {<<111, 58, 112, 116, 58, 105, 111, 110>>,   \* "o:pt:ion"
                        <<112, 58, 97, 115, 115, 119, 111, 114, 100>>,   \* "p:assword"
                        <<100, 58, 101, 108, 105, 109, 58, 105, 116, 101, 114>>,   \* "d:elim:iter"
                        <<101, 58, 99, 104, 111, 58, 45, 104, 97, 115, 104>>,   \* "e:cho:-hash"
                        <<112, 105>>}   \* "pi"
        plain(d) == SelectSeq(d, LAMBDA c : c # 58)   \* ':'
        names == UNION {{SubSeq(plain(d), 1, k) : k \in 0..Len(plain(d))}
                        \cup {plain(d) \o <<120>>, d} : d \in descriptors}   \* 'x'
        dashes == {<<>>, <<45>>, <<45, 45>>, <<45, 45, 45>>}   \* '-'
        prefixes == {<<>>, <<110, 111, 45>>, <<110, 111, 45, 45>>}   \* "no-" "no--"
        values == {<<>>, <<61>>, <<61, 118>>}   \* "=" "=v"
    IN  /\ call.op = "none"
        /\ \E d \in descriptors, a \in dashes, n \in prefixes, m \in names,
              v \in values, flag \in {0, 1} :
               call' = [op |-> "IsOption", input |-> a \o n \o m \o v,
                        descriptor |-> d, flag |-> flag,
                        option |-> IsOption(a \o n \o m \o v, d),
                        flag_option |-> IsFlagOption(a \o n \o m \o v, flag, d)]
        /\ UNCHANGED <<sha1, pat, pos, ended, late>>
        /\ UNCHANGED <<vecVars, findVars, mainVars>>

\* one call of ParseOptions of either program on an argument list of up
\* to MaxArgs arguments
OptParse ==
    LET arguments == {<<45, 45>>,   \* "--"
                      <<45, 112>>,   \* "-p"
                      <<45, 110, 111, 45, 115>>,   \* "-no-s"
                      <<45, 120>>,   \* "-x"
                      <<97>>,   \* "a"
                      <<98, 45>>,   \* "b-"
                      <<>>}   \* ""
    IN  /\ call.op = "none"
        /\ \E f \in {"bin", "text"}, n \in 0..MaxArgs :
           \E args \in [1..n -> arguments] :
               call' = [op |-> "ParseOptions", f |-> f, args |-> args,
                        parsed |-> ParseOptions(f, Globals(f), args)]
        /\ UNCHANGED <<sha1, pat, pos, ended, late>>
        /\ UNCHANGED <<vecVars, findVars, mainVars>>

NextOpt == OptMatch \/ OptParse

SpecOpt == InitOpt /\ [][NextOpt]_vars

\* the index of the first argument "--" of args, Len(args) + 1 without one
EndOfOptions(args) ==
    LET ends == {i \in 1..Len(args) : args[i] = <<45, 45>>}   \* "--"
    IN  IF ends = {} THEN Len(args) + 1
        ELSE CHOOSE i \in ends : \A j \in ends : i <= j

\* the arguments of args that are not options, in their order: those
\* before the first "--" that do not begin with '-', and all those after it
RECURSIVE NonOptions(_, _)
NonOptions(args, i) ==
    IF i > Len(args) THEN <<>>
    ELSE (IF i > EndOfOptions(args) \/ (i < EndOfOptions(args) /\ At(args[i], 0) # 45)   \* '-'
          THEN <<args[i]>> ELSE <<>>) \o NonOptions(args, i + 1)

\* C24: the arguments after the first "--" change no global and end no
\* run, whatever they begin with: ParseOptions exits or returns as it does
\* on the arguments before the "--" alone, with the same globals; and when
\* it returns, the arguments it leaves are the non-option arguments in
\* their order, without the "--" and without the options.
C24_EndOfOptions ==
    call.op = "ParseOptions"
        => LET before == ParseOptions(call.f, Globals(call.f),
                                      SubSeq(call.args, 1, EndOfOptions(call.args) - 1))
           IN  /\ call.parsed.exit = before.exit
               /\ call.parsed.exit = -1
                      => /\ call.parsed.g = before.g
                         /\ call.parsed.args = NonOptions(call.args, 1)

\* -p -- -x: the option is taken, the "--" dropped and -x left as the
\* only argument
C24_Witness ==
    /\ call.op = "ParseOptions"
    /\ call.args = << <<45, 112>>, <<45, 45>>, <<45, 120>> >>
    /\ call.parsed.exit = -1
    /\ call.parsed.g.password = 1
    /\ call.parsed.args = << <<45, 120>> >>

\* the names a descriptor admits: its text without the colons, cut at a
\* colon or at its end
Cuts(descriptor) ==
    {SelectSeq(SubSeq(descriptor, 1, k), LAMBDA c : c # 58) :   \* ':'
         k \in {k \in 0..Len(descriptor) : k = Len(descriptor) \/ descriptor[k + 1] = 58}}   \* ':'

\* the readings of input as lead, name and an optional =value, lead being
\* one of the sequences of leads; value is NULLBUF without an '='
Readings(input, leads) ==
    {r \in [name : {SubSeq(input, i, j) : i \in 1..(Len(input) + 1), j \in 0..Len(input)},
            value : {From(input, i) : i \in 0..Len(input)} \cup {NULLBUF}] :
         /\ \A i \in 1..Len(r.name) : r.name[i] # 61   \* '='
         /\ \E lead \in leads :
                input = lead \o r.name \o (IF r.value = NULLBUF THEN <<>> ELSE <<61>> \o r.value)}   \* '='

\* C25: IsOption returns 1 exactly for the inputs -name and --name, with
\* or without =value, whose name is the descriptor cut at a colon or at
\* its end, and then gives the text after '=' as the value, NULL without
\* an '=' and NULL when it returns 0.  IsFlagOption returns 1 and stores 1
\* for those inputs, returns 1 and stores 0 for such an input with no-
\* before the name, and returns 0 and leaves the flag alone for every
\* other input.
C25_OptionMatching ==
    call.op = "IsOption"
        => LET plain == {r \in Readings(call.input, {<<45>>, <<45, 45>>}) :   \* "-" "--"
                             r.name \in Cuts(call.descriptor)}
               negated == {r \in Readings(call.input, {<<45, 110, 111, 45>>,   \* "-no-"
                                                       <<45, 45, 110, 111, 45>>}) :   \* "--no-"
                               r.name \in Cuts(call.descriptor)}
           IN  /\ call.option.rval = IF plain # {} THEN 1 ELSE 0
               /\ \A r \in plain : call.option.value = r.value
               /\ plain = {} => call.option.value = NULLBUF
               /\ plain # {} => call.flag_option = [rval |-> 1, flag |-> 1]
               /\ (plain = {} /\ negated # {}) => call.flag_option = [rval |-> 1, flag |-> 0]
               /\ (plain = {} /\ negated = {})
                      => call.flag_option = [rval |-> 0, flag |-> call.flag]

\* the bytes of record i (from 0) of the mapped file that hold its hash
HashField(i) ==
    LET size == IF fmt = "bin" THEN kPwnedInfoSize ELSE kTextHashLineBytes
        width == IF fmt = "bin" THEN SHA1_BINARY_BYTES ELSE kTextHashChars
    IN  SubSeq(file_data, i * size + 1, i * size + width)

\* C26: whenever the loop body of find_hash is about to run on a corpus of
\* n records, 0 <= lo <= mid <= hi <= n - 1, so record mid, the one record
\* the iteration reads, lies inside the mapped span; and when the
\* iteration ends the call, *count is the count of record mid if its hash
\* is the one looked for and 0, read from no record, otherwise.
C26_SearchBounds ==
    [][fpc = "loop"
          => LET size == IF fmt = "bin" THEN kPwnedInfoSize ELSE kTextHashLineBytes
                 n == Len(file_data) \div size
                 same == IF fmt = "bin" THEN HashField(srch.mid) = target
                         ELSE Recase(HashField(srch.mid), "upper") = Recase(target, "upper")
             IN  /\ n = Len(recs)
                 /\ 0 <= srch.lo
                 /\ srch.lo <= srch.mid
                 /\ srch.mid <= srch.hi
                 /\ srch.hi <= n - 1
                 /\ (srch.mid + 1) * size <= Len(file_data)
                 /\ fpc' = "done"
                        => IF same
                           THEN ret' = [found |-> 1, count |-> CountOf[recs[srch.mid + 1]]]
                           ELSE ret' = [found |-> 0, count |-> 0]]_vars

\* the third evaluation of the loop body on seven records, on record 5
\* between records 4 and 6
C26_Witness ==
    /\ fpc = "loop"
    /\ Len(recs) = Len(Universe)
    /\ srch.iters = 2
    /\ srch.lo = 4
    /\ srch.mid = 5
    /\ srch.hi = 6

\* C27: once mmap of the corpus file has failed, main has reported it and
\* exited with 5: it has called handle_input for no query and has read
\* nothing through the value mmap returned.
C27_MappingFailure ==
    file_data = MAP_FAILED
        => /\ mpc = "exit"
           /\ exit_code = 5
           /\ log = <<>>
           /\ run.stage # "signal"

(***************************************************************************)
(* Two logical streams, each with a sha1_t of its own, each hashing its    *)
(* own input with sha1_init_flags, sha1_update, sha1_end and sha1_text and *)
(* then reading the string at the pointer sha1_text returned; the calls    *)
(* of the two interleave in every order.  A stream passes sha1_text a      *)
(* buffer of its own or NULL.  thr[t] is stream t and text is shared_text, *)
(* the static buffer of sha1_text.                                         *)
(***************************************************************************)
InitTwo ==
    /\ sha1 = NULL
    /\ idleSha
    /\ vpc = "off"
    /\ vec = "none"
    /\ frame = [b |-> 0, size |-> 0]
    /\ text = <<>>
    /\ fmt = "none"
    /\ recs = <<>>
    /\ file_data = <<>>
    /\ query = <<>>
    /\ target = <<>>
    /\ fpc = "off"
    /\ srch = [lo |-> 0, hi |-> 0, mid |-> 0, iters |-> 0]
    /\ ret = [found |-> 0, count |-> 0]
    /\ thr \in [1..2 -> [pc : {"init"}, pat : Patterns, size : ApiSizes,
                         arg : {"own", "null"}, sha1 : {NULL}, own : {<<>>},
                         returned : {"none"}, obtained : {<<>>}]]
    /\ idleMain

\* the next call of stream t on its own object, or its read of the string
\* sha1_text returned to it
StreamStep(t) ==
    /\ thr[t].pc # "done"
    /\ thr' = [thr EXCEPT ![t] =
          IF @.pc = "init"
          THEN [@ EXCEPT !.pc = "update",
                         !.sha1 = sha1_init_flags(sha1_initialized, SHA1_FLAGS_DEFAULT)]
          ELSE IF @.pc = "update"
          THEN [@ EXCEPT !.pc = "end",
                         !.sha1 = sha1_update(@, Fragment(thr[t].pat, 0, thr[t].size),
                                              thr[t].size)]
          ELSE IF @.pc = "end"
          THEN [@ EXCEPT !.pc = "text", !.sha1 = sha1_end(@)]
          ELSE IF @.pc = "text"
          THEN [@ EXCEPT !.pc = "read",
                         !.own = IF thr[t].arg = "own" THEN sha1_text(thr[t].sha1) ELSE @,
                         !.returned = IF thr[t].arg = "own" THEN "own" ELSE "shared"]
          ELSE [@ EXCEPT !.pc = "done",
                         !.obtained = IF thr[t].returned = "own" THEN thr[t].own
                                       ELSE text]]
    /\ text' = IF thr[t].pc = "text" /\ thr[t].arg = "null"
               THEN sha1_text(thr[t].sha1) ELSE text
    /\ UNCHANGED <<vpc, vec, frame>>
    /\ UNCHANGED <<fmt, recs, file_data, query, target, fpc, srch, ret>>
    /\ UNCHANGED <<shaVars, mainVars>>

NextTwo == \E t \in 1..2 : StreamStep(t)

SpecTwo == InitTwo /\ [][NextTwo]_vars

\* C28: a stream that has read the string sha1_text returned to it has
\* the hex text of the digest of its own input, whatever the other stream
\* did in between.
C28_NoInterference ==
    \A t \in 1..2 :
        thr[t].pc = "done"
            => thr[t].obtained = sha1_buffer_flags(Fragment(thr[t].pat, 0, thr[t].size),
                                                   thr[t].size, SHA1_FLAGS_DEFAULT)

\* find_hash of the program for format f on the corpus of the model
\* written in that format, looking for the hash that query names
Answer(f) ==
    find_hash(f, FileOf(f, recs), Len(FileOf(f, recs)),
              IF f = "bin" THEN hex_decode(query).hash ELSE query,
              [found |-> 1, count |-> 0])

\* C29: when find_hash of one program has returned on a corpus and a
\* query of 40 hex digits, what it returned and the *count it left are
\* those of find_hash of the other program on the same records, in the
\* same order, written in the other format.
C29_SameAnswers ==
    (fpc = "done" /\ WellFormed)
        => /\ ret = Answer(IF fmt = "bin" THEN "text" ELSE "bin")
           /\ ret = Answer(fmt)

\* the text program has found the record with the largest count of 31
\* bits, written in upper case, from a query in mixed case
C29_Witness ==
    /\ fpc = "done"
    /\ fmt = "text"
    /\ query = HexText(Universe[5], "mixed")
    /\ Len(recs) = MaxRecords
    /\ ret = [found |-> 1, count |-> 2147483647]
====
